---- MODULE Spec2Model ----
(***************************************************************************)
(* Model of the equipment-delivery optimization service                    *)
(* (src/optimization-service): the request pipeline of main.optimize       *)
(* (constraints, clustering, planner, preseason multi-pass, infeasibility  *)
(* cascade, lookahead disposition), the assembly of the distance matrix,   *)
(* and the planner, the disposition and the provider batches on their own. *)
(*                                                                         *)
(* Geography.  Every location lies on one meridian and is given by its     *)
(* position in miles along it.  On a meridian the haversine distance of    *)
(* two points is the difference of their positions, and the squared        *)
(* degree distance of WeekData.nearest_hub orders hubs the same way.       *)
(* Miles of the distance matrix are kept in tenths of a mile (the code     *)
(* rounds them to one decimal).                                            *)
(***************************************************************************)
EXTENDS Integers, Sequences, FiniteSets, TLC

VARIABLES
    week_data,              \* main.optimize: the loaded WeekData
    pc,                     \* position of the request in main.optimize
    result,                 \* main.optimize: result
    initial_result,         \* handle_infeasibility: initial_result
    best_result,            \* handle_infeasibility: best_result
    step,                   \* handle_infeasibility: the next cascade step
    step_result,            \* handle_infeasibility: result (what the last rerun answered)
    combined,               \* optimize_week0: combined
    global_used_asset_ids,  \* optimize_week0: global_used_asset_ids
    served_set,             \* optimize_week0: served_set
    pass_num,               \* optimize_week0: pass_num
    pass_result,            \* optimize_week0: result (what the last pass answered)
    locations,              \* get_distance_matrix: locations
    matrix,                 \* get_distance_matrix: matrix._data
    cached,                 \* get_distance_matrix: cached (pairs the cache matched)
    api_results,            \* get_distance_matrix: api_results (pairs the provider returned)
    mpc,                    \* position inside get_distance_matrix
    outcomes,               \* get_distance_matrix: how each external call ended
    store,                  \* the tables of the store write_results writes to
    writers,                \* write_results: position and locals of each request
    coords,                 \* LatLng: the two coordinates compared
    compared,               \* LatLng: the answers of __eq__ and __hash__
    cluster_args,           \* cluster_venues: its arguments
    cluster_result,         \* cluster_venues: the clusters it returned
    unscored,               \* score_run: the result it is given
    scored,                 \* score_run: the result it returned
    build_args,             \* _build_trip_for_cluster: its arguments
    build_out,              \* _build_trip_for_cluster: what it returned
    week_out,               \* optimize_week: what it returned for the same week
    disp_args,              \* determine_disposition: its arguments
    disp_out,               \* determine_disposition: the Disposition it returned
    fetch,                  \* _fetch_from_google_maps: its arguments and loop position
    fetch_log,              \* _fetch_from_google_maps: the provider calls and sleeps made
    tour_args,              \* optimize_week: the week and the answer of the TSP solver
    tour_out                \* optimize_week: the result it returned for them

planVars == <<week_data, pc, result, initial_result, best_result, step, step_result,
              combined, global_used_asset_ids, served_set, pass_num, pass_result>>

matrixVars == <<locations, matrix, cached, api_results, mpc, outcomes>>

writerVars == <<store, writers>>

latlngVars == <<coords, compared>>

clusterVars == <<cluster_args, cluster_result>>

scoreVars == <<unscored, scored>>

buildVars == <<build_args, build_out, week_out>>

\* the variables of the functions specified on their own, after score_run
lookVars == <<disp_args, disp_out>>

fetchVars == <<fetch, fetch_log>>

tourVars == <<tour_args, tour_out>>

unitVars == <<buildVars, lookVars, fetchVars, tourVars>>

vars == <<planVars, matrixVars, writerVars, latlngVars, clusterVars, scoreVars, unitVars>>

-----------------------------------------------------------------------------
(* Bounds of the model *)

MaxQty == 2          \* largest quantity of a contract item
MaxVehicles == 2     \* largest number of vehicles at the first hub
MaxRows == 2         \* largest number of rows the distance cache returns
MaxFetch == 3        \* largest number of origins or destinations fetched
MaxCoord == 12       \* largest latitude compared, in units of 1e-7 degree
MaxVenues == 3       \* largest number of venues given to cluster_venues on its own
MaxScoredTrips == 2  \* largest number of trips of a result given to score_run on its own
MaxUnassigned == 7   \* largest number of unassigned demands of such a result

(* Program constants *)

MAX_PASSES == 10
max_radius_miles == 150
max_stops == 4

-----------------------------------------------------------------------------
(* Generic helpers on sequences *)

SeqToSet(s) == {s[i] : i \in DOMAIN s}

Abs(x) == IF x < 0 THEN -x ELSE x

RECURSIVE SumSeq(_)
SumSeq(s) == IF s = <<>> THEN 0 ELSE Head(s) + SumSeq(Tail(s))

RECURSIVE Flatten(_)
Flatten(ss) == IF ss = <<>> THEN <<>> ELSE Head(ss) \o Flatten(Tail(ss))

\* list.sort(key=..., reverse=True) on a sequence of [key, val] records: descending by
\* key, equal keys keep their original order (Python's sort is stable under reverse).
RECURSIVE InsertDesc(_, _)
InsertDesc(sorted, x) ==
    IF sorted = <<>> THEN <<x>>
    ELSE IF Head(sorted).key >= x.key
         THEN <<Head(sorted)>> \o InsertDesc(Tail(sorted), x)
         ELSE <<x>> \o sorted

RECURSIVE SortDesc(_, _)
SortDesc(s, acc) ==
    IF s = <<>> THEN acc ELSE SortDesc(Tail(s), InsertDesc(acc, Head(s)))

\* Index of the first element of a non-empty sequence of integers that is minimal
\* (Python's min(..., key=...) and the "d < best_dist" scans keep the first minimum).
FirstMinIndex(ds) ==
    CHOOSE i \in DOMAIN ds :
        /\ \A j \in DOMAIN ds : ds[i] <= ds[j]
        /\ \A j \in 1..(i - 1) : ds[j] > ds[i]

RemoveAt(s, i) == SubSeq(s, 1, i - 1) \o SubSeq(s, i + 1, Len(s))

-----------------------------------------------------------------------------
(* Geography *)

\* lookahead._haversine_miles / clustering._haversine_miles on a meridian
haversine_miles(a, b) == Abs(a - b)

\* DistanceMatrix._haversine_estimate: road distance 1.3 x the straight line, rounded
\* to one decimal; the result is in tenths of a mile.
haversine_estimate(a, b) == 13 * haversine_miles(a, b)

\* Venue.location is None, or a coordinate: the empty sequence, or <<position>>.
None == <<>>
Venue(id, pos) == [id |-> id, location |-> <<pos>>]
VenueNoLoc(id) == [id |-> id, location |-> None]

-----------------------------------------------------------------------------
(* data_loader.WeekData *)

RECURSIVE game_venues_from(_, _)
game_venues_from(games, seen) ==
    IF games = <<>> THEN <<>>
    ELSE LET game == Head(games) IN
         IF game.venue_id \notin seen
         THEN <<game.venue>> \o game_venues_from(Tail(games), seen \cup {game.venue_id})
         ELSE game_venues_from(Tail(games), seen)

game_venues(wd) == game_venues_from(wd.games, {})

hub_locations(wd) == [i \in DOMAIN wd.hubs |-> wd.hubs[i].pos]

demands_for_game(wd, game) ==
    SelectSeq(wd.contract_items, LAMBDA ci : ci.customer_id = game.customer_id)

assets_at_hub(wd, hub_id) ==
    SelectSeq(wd.assets, LAMBDA a : a.status = "at_hub" /\ a.current_hub = hub_id)

assets_at_venue(wd, venue_id) ==
    SelectSeq(wd.assets, LAMBDA a : a.status = "on_site" /\ a.current_venue_id = venue_id)

available_vehicles_at_hub(wd, hub_id) ==
    SelectSeq(wd.vehicles, LAMBDA v : v.home_hub_id = hub_id /\ v.status = "active")

available_personnel_at_hub(wd, hub_id) ==
    SelectSeq(wd.personnel, LAMBDA p : p.home_hub_id = hub_id)

\* nearest_hub: None (the empty sequence) or <<hub>>
nearest_hub(wd, venue) ==
    IF venue.location = None \/ wd.hubs = <<>> THEN None
    ELSE LET loc == venue.location[1]
             ds == [i \in DOMAIN wd.hubs |-> (wd.hubs[i].pos - loc) * (wd.hubs[i].pos - loc)]
         IN <<wd.hubs[FirstMinIndex(ds)]>>

-----------------------------------------------------------------------------
(* constraints.py *)

weight_estimate(asset_type) ==
    CASE asset_type = "heated_bench" -> 150
      [] asset_type = "dragon_shader" -> 200
      [] asset_type = "heated_foot_deck" -> 50
      [] OTHER -> 100

RECURSIVE demands_from(_, _)
demands_from(wd, games) ==
    IF games = <<>> THEN <<>>
    ELSE LET game == Head(games)
             items == demands_for_game(wd, game)
         IN IF items = <<>>
            THEN demands_from(wd, Tail(games))
            ELSE <<[venue_id |-> game.venue_id,
                    customer_id |-> game.customer_id,
                    items |-> items,
                    total_weight_lbs |->
                        SumSeq([k \in DOMAIN items |->
                                  items[k].quantity * weight_estimate(items[k].asset_type)])]>>
                 \o demands_from(wd, Tail(games))

\* Faulty variant of blocked_assets: a task in progress no longer blocks its asset
blocked_assets_pending_only(tasks) ==
    {tasks[k].asset_id : k \in {j \in DOMAIN tasks : tasks[j].status = "pending"}}

blocked_assets(tasks) ==
    {tasks[k].asset_id : k \in {j \in DOMAIN tasks : tasks[j].status \in {"pending", "in_progress"}}}

\* build_constraints; the soft weights are kept in tenths
build_constraints(wd) ==
    [demands |-> demands_from(wd, wd.games),
     blocked_asset_ids |-> blocked_assets(wd.branding_tasks),
     weight_minimize_miles |-> 10,
     weight_minimize_vehicles |-> 8,
     weight_prefer_closest_hub |-> 6,
     weight_minimize_rebranding |-> 7,
     weight_geographic_clustering |-> 5]

\* Faulty variant of check_capacity_weight: a vehicle without a declared capacity
\* carries nothing
check_capacity_weight_strict(vehicle, total_weight) ==
    total_weight <= vehicle.capacity_lbs

check_capacity_weight(vehicle, total_weight) ==
    IF vehicle.capacity_lbs = 0 THEN TRUE ELSE total_weight <= vehicle.capacity_lbs

check_branding(asset, branding_spec, tasks) ==
    \/ branding_spec = ""
    \/ asset.current_branding = ""
    \/ asset.current_branding = branding_spec
    \/ \E k \in DOMAIN tasks :
          /\ tasks[k].asset_id = asset.id
          /\ tasks[k].to_branding = branding_spec
          /\ tasks[k].status = "completed"

match_asset_to_demand(asset, item, blocked_ids, tasks) ==
    /\ asset.id \notin blocked_ids
    /\ asset.condition \notin {"out_of_service", "needs_repair"}
    /\ asset.asset_type = item.asset_type
    /\ (item.model_version = "" \/ asset.model_version = item.model_version)
    /\ check_branding(asset, item.branding_spec, tasks)

-----------------------------------------------------------------------------
(* distance_matrix.DistanceMatrix as the planner reads it.  The request's matrix is *)
(* the one get_distance_matrix returns when neither the cache nor the provider      *)
(* delivers a pair: zero on the diagonal, the haversine estimate elsewhere.         *)

distance_miles(a, b) == IF a = b THEN 0 ELSE haversine_estimate(a, b)

\* the duration of the same matrix, in tenths of a minute: 50 mph, so 1.2 minutes
\* per road mile
duration_minutes(a, b) == IF a = b THEN 0 ELSE (12 * haversine_estimate(a, b) + 5) \div 10

-----------------------------------------------------------------------------
(* clustering.py *)

_nearest_hub_distance(venue, hubs) ==
    LET ds == [i \in DOMAIN hubs |-> haversine_miles(venue.location[1], hubs[i])]
    IN ds[FirstMinIndex(ds)]

RECURSIVE order_stops_loop(_, _)
order_stops_loop(remaining, current) ==
    IF remaining = <<>> THEN <<>>
    ELSE LET ds == [i \in DOMAIN remaining |->
                       distance_miles(current, remaining[i].location[1])]
             best_idx == FirstMinIndex(ds)
         IN <<remaining[best_idx]>>
            \o order_stops_loop(RemoveAt(remaining, best_idx),
                                remaining[best_idx].location[1])

_order_stops_nn(venues, start) ==
    IF Len(venues) <= 1 THEN venues ELSE order_stops_loop(venues, start)

\* Faulty variant of extend_cluster: a candidate is measured from the venue added
\* last, not from the seed
RECURSIVE extend_cluster_chained(_, _, _, _, _, _)
extend_cluster_chained(candidates, loc, cluster_venues_list, assigned, radius, stops) ==
    IF candidates = <<>>
    THEN [venues |-> cluster_venues_list, assigned |-> assigned]
    ELSE LET candidate == Head(candidates) IN
         IF candidate.id \in assigned
         THEN extend_cluster_chained(Tail(candidates), loc, cluster_venues_list, assigned,
                                     radius, stops)
         ELSE IF Len(cluster_venues_list) >= stops
         THEN [venues |-> cluster_venues_list, assigned |-> assigned]
         ELSE IF haversine_miles(loc, candidate.location[1]) <= radius
         THEN extend_cluster_chained(Tail(candidates), candidate.location[1],
                                     Append(cluster_venues_list, candidate),
                                     assigned \cup {candidate.id}, radius, stops)
         ELSE extend_cluster_chained(Tail(candidates), loc, cluster_venues_list, assigned,
                                     radius, stops)

\* the scan "for candidate in valid_venues" that extends the cluster of a seed
RECURSIVE extend_cluster(_, _, _, _, _, _)
extend_cluster(candidates, loc, cluster_venues_list, assigned, radius, stops) ==
    IF candidates = <<>>
    THEN [venues |-> cluster_venues_list, assigned |-> assigned]
    ELSE LET candidate == Head(candidates) IN
         IF candidate.id \in assigned
         THEN extend_cluster(Tail(candidates), loc, cluster_venues_list, assigned, radius, stops)
         ELSE IF Len(cluster_venues_list) >= stops
         THEN [venues |-> cluster_venues_list, assigned |-> assigned]
         ELSE IF haversine_miles(loc, candidate.location[1]) <= radius
         THEN extend_cluster(Tail(candidates), loc, Append(cluster_venues_list, candidate),
                             assigned \cup {candidate.id}, radius, stops)
         ELSE extend_cluster(Tail(candidates), loc, cluster_venues_list, assigned, radius, stops)

\* the cluster of one seed, ordered from the hub nearest to the seed, put before the
\* clusters of the later seeds
ordered_cluster(ext_venues, loc, hubs) ==
    IF hubs # <<>>
    THEN LET hd == [i \in DOMAIN hubs |-> haversine_miles(loc, hubs[i])]
         IN _order_stops_nn(ext_venues, hubs[FirstMinIndex(hd)])
    ELSE ext_venues

prepend_cluster(ordered, rest) ==
    [clusters |-> <<ordered>> \o rest.clusters, assigned |-> rest.assigned]

\* the loop "for venue in valid_venues" that seeds the clusters
RECURSIVE cluster_loop(_, _, _, _, _, _)
RECURSIVE cluster_seed(_, _, _, _, _, _, _)
cluster_seed(ext, venue, todo, valid_venues, hubs, radius, stops) ==
    prepend_cluster(ordered_cluster(ext.venues, venue.location[1], hubs),
                    cluster_loop(Tail(todo), valid_venues, ext.assigned, hubs, radius, stops))

cluster_loop(todo, valid_venues, assigned, hubs, radius, stops) ==
    IF todo = <<>> THEN [clusters |-> <<>>, assigned |-> assigned]
    ELSE IF Head(todo).id \in assigned
         THEN cluster_loop(Tail(todo), valid_venues, assigned, hubs, radius, stops)
         ELSE cluster_seed(extend_cluster(valid_venues, Head(todo).location[1],
                                          <<Head(todo)>>, assigned \cup {Head(todo).id},
                                          radius, stops),
                           Head(todo), todo, valid_venues, hubs, radius, stops)

\* valid_venues after valid_venues.sort(key=_nearest_hub_distance, reverse=True)
sorted_valid_venues(with_loc, hubs) ==
    IF hubs = <<>> THEN with_loc
    ELSE LET sorted == SortDesc([i \in DOMAIN with_loc |->
                                    [key |-> _nearest_hub_distance(with_loc[i], hubs),
                                     val |-> with_loc[i]]], <<>>)
         IN [i \in DOMAIN sorted |-> sorted[i].val]

\* the clusters of the seeds, then a single-stop cluster per venue left unassigned
with_leftover(r, venues) ==
    LET left == SelectSeq(venues, LAMBDA v : v.id \notin r.assigned)
    IN r.clusters \o [i \in DOMAIN left |-> <<left[i]>>]

cluster_sorted(valid_venues, venues, hubs, radius, stops) ==
    with_leftover(cluster_loop(valid_venues, valid_venues, {}, hubs, radius, stops), venues)

\* cluster_venues: a cluster is the sequence VenueCluster.venues
cluster_venues(venues, hubs, radius, stops) ==
    IF venues = <<>> THEN <<>>
    ELSE IF SelectSeq(venues, LAMBDA v : v.location # None) = <<>>
    THEN [i \in DOMAIN venues |-> <<venues[i]>>]
    ELSE cluster_sorted(sorted_valid_venues(SelectSeq(venues, LAMBDA v : v.location # None),
                                            hubs),
                        venues, hubs, radius, stops)

-----------------------------------------------------------------------------
(* optimizer.py *)

EmptyResult ==
    [trips |-> <<>>, unassigned_demands |-> <<>>, warnings |-> <<>>,
     constraint_relaxations |-> <<>>, status |-> "completed"]

has_unassigned(r) == Len(r.unassigned_demands) > 0

UnassignedDemand(customer_id, venue_id, asset_type, quantity, reason) ==
    [customer_id |-> customer_id, venue_id |-> venue_id, asset_type |-> asset_type,
     quantity |-> quantity, reason |-> reason]

\* the scan "for asset in available" of one contract item; matched is the list so far
RECURSIVE match_scan(_, _, _, _, _, _)
match_scan(available, item, used_asset_ids, matched, blocked_ids, tasks) ==
    IF available = <<>> THEN matched
    ELSE LET asset == Head(available) IN
         IF asset.id \in used_asset_ids
         THEN match_scan(Tail(available), item, used_asset_ids, matched, blocked_ids, tasks)
         ELSE IF Len(matched) >= item.quantity THEN matched
         ELSE IF match_asset_to_demand(asset, item, blocked_ids, tasks)
         THEN match_scan(Tail(available), item, used_asset_ids \cup {asset.id},
                         Append(matched, asset), blocked_ids, tasks)
         ELSE match_scan(Tail(available), item, used_asset_ids, matched, blocked_ids, tasks)

\* one contract item done: its matches, and its UnassignedDemand when it is short
item_done(matched, item, demand, rest) ==
    [assigned |-> matched \o rest.assigned,
     unassigned |->
         (IF Len(matched) < item.quantity
          THEN <<UnassignedDemand(demand.customer_id, demand.venue_id, item.asset_type,
                                  item.quantity - Len(matched), "Only K of N available")>>
          ELSE <<>>) \o rest.unassigned]

\* the loop "for item in demand.items"
RECURSIVE assign_items(_, _, _, _, _, _)
RECURSIVE assign_item(_, _, _, _, _, _, _)
assign_item(matched, items, demand, available, used_asset_ids, blocked_ids, tasks) ==
    item_done(matched, Head(items), demand,
              assign_items(Tail(items), demand, available,
                           used_asset_ids \cup {matched[k].id : k \in DOMAIN matched},
                           blocked_ids, tasks))

assign_items(items, demand, available, used_asset_ids, blocked_ids, tasks) ==
    IF items = <<>> THEN [assigned |-> <<>>, unassigned |-> <<>>]
    ELSE assign_item(match_scan(available, Head(items), used_asset_ids, <<>>,
                                blocked_ids, tasks),
                     items, demand, available, used_asset_ids, blocked_ids, tasks)

_assign_assets_to_demand(demand, available, constraints, wd) ==
    assign_items(demand.items, demand, available, {}, constraints.blocked_asset_ids,
                 wd.branding_tasks)

\* Index of the first TRUE of a sequence of booleans, or 0: the scans that stop at
\* the first element passing a test
FirstTrue(bs) ==
    IF \E i \in DOMAIN bs : bs[i]
    THEN CHOOSE i \in DOMAIN bs : bs[i] /\ \A j \in 1..(i - 1) : ~bs[j]
    ELSE 0

TripPerson(person, role) == [person_id |-> person.id, role_on_trip |-> role]

\* Faulty variant of _assign_personnel: the persons already on a trip are not skipped
_assign_personnel_reused(hub, wd, used_person_ids) ==
    LET available == available_personnel_at_hub(wd, hub.id)
        d == FirstTrue([i \in DOMAIN available |-> available[i].role = "driver"])
        f == FirstTrue([i \in DOMAIN available |->
                           available[i].role \in {"lead_tech", "service_tech"}])
        first == IF d # 0 THEN <<TripPerson(available[d], "driver")>>
                 ELSE IF f # 0 THEN <<TripPerson(available[f], "driver")>>
                 ELSE <<>>
        used1 == {first[k].person_id : k \in DOMAIN first}
        t == FirstTrue([i \in DOMAIN available |->
                           available[i].id \notin used1
                           /\ available[i].role \in {"service_tech", "lead_tech"}])
        second == IF t # 0 THEN <<TripPerson(available[t], "service_tech")>> ELSE <<>>
    IN [personnel |-> first \o second,
        used_person_ids |-> used_person_ids \cup used1
                                \cup {second[k].person_id : k \in DOMAIN second}]

_assign_personnel(hub, wd, used_person_ids) ==
    LET available == available_personnel_at_hub(wd, hub.id)
        d == FirstTrue([i \in DOMAIN available |->
                           available[i].role = "driver"
                           /\ available[i].id \notin used_person_ids])
        f == FirstTrue([i \in DOMAIN available |->
                           available[i].id \notin used_person_ids
                           /\ available[i].role \in {"lead_tech", "service_tech"}])
        first == IF d # 0 THEN <<TripPerson(available[d], "driver")>>
                 ELSE IF f # 0 THEN <<TripPerson(available[f], "driver")>>
                 ELSE <<>>
        used1 == used_person_ids \cup {first[k].person_id : k \in DOMAIN first}
        t == FirstTrue([i \in DOMAIN available |->
                           available[i].id \notin used1
                           /\ available[i].role \in {"service_tech", "lead_tech"}])
        second == IF t # 0 THEN <<TripPerson(available[t], "service_tech")>> ELSE <<>>
    IN [personnel |-> first \o second,
        used_person_ids |-> used1 \cup {second[k].person_id : k \in DOMAIN second}]

\* Faulty variant of choose_vehicle: the vehicles already on a trip are not skipped
choose_vehicle_reused(hub, wd, used_vehicle_ids) ==
    LET Free(h) == available_vehicles_at_hub(wd, h.id)
        others == SelectSeq(wd.hubs, LAMBDA h : h.id # hub.id /\ Free(h) # <<>>)
    IN IF Free(hub) # <<>>
       THEN [vehicle |-> <<Free(hub)[1]>>, hub |-> hub, warnings |-> <<>>]
       ELSE IF others # <<>>
       THEN [vehicle |-> <<Free(others[1])[1]>>, hub |-> others[1],
             warnings |-> <<"Cross-hub">>]
       ELSE [vehicle |-> None, hub |-> hub, warnings |-> <<>>]

\* the vehicle of the trip: the first free one at the nearest hub, else the first free
\* one at another hub (in the order of week_data.hubs), else none
choose_vehicle(hub, wd, used_vehicle_ids) ==
    LET Free(h) == SelectSeq(available_vehicles_at_hub(wd, h.id),
                             LAMBDA v : v.id \notin used_vehicle_ids)
        others == SelectSeq(wd.hubs, LAMBDA h : h.id # hub.id /\ Free(h) # <<>>)
    IN IF Free(hub) # <<>>
       THEN [vehicle |-> <<Free(hub)[1]>>, hub |-> hub, warnings |-> <<>>]
       ELSE IF others # <<>>
       THEN [vehicle |-> <<Free(others[1])[1]>>, hub |-> others[1],
             warnings |-> <<"Cross-hub">>]
       ELSE [vehicle |-> None, hub |-> hub, warnings |-> <<>>]

\* Faulty variant of no_vehicle_unassigned: one entry per demand, for its first item
RECURSIVE no_vehicle_unassigned_per_demand(_, _)
no_vehicle_unassigned_per_demand(venues, constraints) ==
    IF venues = <<>> THEN <<>>
    ELSE LET venue == Head(venues)
             ds == SelectSeq(constraints.demands, LAMBDA d : d.venue_id = venue.id)
         IN [k \in DOMAIN ds |->
                UnassignedDemand(ds[k].customer_id, venue.id, ds[k].items[1].asset_type,
                                 ds[k].items[1].quantity,
                                 "No vehicle with sufficient capacity available")]
            \o no_vehicle_unassigned_per_demand(Tail(venues), constraints)

\* the entries of the branch "if not vehicle"
RECURSIVE no_vehicle_unassigned(_, _)
no_vehicle_unassigned(venues, constraints) ==
    IF venues = <<>> THEN <<>>
    ELSE LET venue == Head(venues)
             ds == SelectSeq(constraints.demands, LAMBDA d : d.venue_id = venue.id)
         IN Flatten([k \in DOMAIN ds |->
                        [m \in DOMAIN ds[k].items |->
                            UnassignedDemand(ds[k].customer_id, venue.id,
                                             ds[k].items[m].asset_type,
                                             ds[k].items[m].quantity,
                                             "No vehicle with sufficient capacity available")]])
            \o no_vehicle_unassigned(Tail(venues), constraints)

\* Faulty variant of take_assigned: the assigned ids are not added to used_asset_ids
take_assigned_unreserved(st, r) ==
    LET ids == {r.assigned[k].id : k \in DOMAIN r.assigned} IN
    [st EXCEPT
       !.trip_assets = @ \o [k \in DOMAIN r.assigned |-> r.assigned[k].id],
       !.all_unassigned = @ \o r.unassigned,
       !.total_weight = @ + SumSeq([k \in DOMAIN r.assigned |-> r.assigned[k].weight_lbs]),
       !.hub_assets = SelectSeq(@, LAMBDA a : a.id \notin ids)]

\* the lines after _assign_assets_to_demand returned r for one demand
take_assigned(st, r) ==
    LET ids == {r.assigned[k].id : k \in DOMAIN r.assigned} IN
    [st EXCEPT
       !.trip_assets = @ \o [k \in DOMAIN r.assigned |-> r.assigned[k].id],
       !.all_unassigned = @ \o r.unassigned,
       !.used_asset_ids = @ \cup ids,
       !.total_weight = @ + SumSeq([k \in DOMAIN r.assigned |-> r.assigned[k].weight_lbs]),
       !.hub_assets = SelectSeq(@, LAMBDA a : a.id \notin ids)]

\* the loop "for demand in venue_demands"
RECURSIVE demands_loop(_, _, _, _, _)
demands_loop(venue_demands, venue, st, wd, constraints) ==
    IF venue_demands = <<>> THEN st
    ELSE demands_loop(Tail(venue_demands), venue,
            take_assigned(st,
                _assign_assets_to_demand(
                    Head(venue_demands),
                    SelectSeq(assets_at_venue(wd, venue.id),
                              LAMBDA a : a.id \notin st.used_asset_ids) \o st.hub_assets,
                    constraints, wd)),
            wd, constraints)

TripStop(venue_id, stop_order, demand) ==
    [venue_id |-> venue_id, stop_order |-> stop_order,
     requires_hub_return |-> FALSE, hub_return_reason |-> "",
     demand |-> [venue_id |-> demand.venue_id, customer_id |-> demand.customer_id]]

add_stop(st, venue, stop_order, venue_demands) ==
    [st EXCEPT !.trip_stops = Append(@, TripStop(venue.id, stop_order + 1, venue_demands[1]))]

\* the loop "for stop_order, venue in enumerate(cluster.venues)"
RECURSIVE venues_loop(_, _, _, _, _)
venues_loop(venues, stop_order, st, wd, constraints) ==
    IF venues = <<>> THEN st
    ELSE LET venue == Head(venues)
             venue_demands == SelectSeq(constraints.demands,
                                        LAMBDA d : d.venue_id = venue.id)
         IN IF venue_demands = <<>>
            THEN venues_loop(Tail(venues), stop_order + 1, st, wd, constraints)
            ELSE venues_loop(Tail(venues), stop_order + 1,
                     add_stop(demands_loop(venue_demands, venue, st, wd, constraints),
                              venue, stop_order, venue_demands),
                     wd, constraints)

\* the sum of the matrix miles along hub, stops, hub
RECURSIVE route_miles(_, _, _, _)
route_miles(prev, stops, venues, hub_pos) ==
    IF stops = <<>> THEN distance_miles(prev, hub_pos)
    ELSE LET k == FirstTrue([i \in DOMAIN venues |-> venues[i].id = Head(stops).venue_id])
         IN IF k # 0 /\ venues[k].location # None
            THEN distance_miles(prev, venues[k].location[1])
                 + route_miles(venues[k].location[1], Tail(stops), venues, hub_pos)
            ELSE route_miles(prev, Tail(stops), venues, hub_pos)

\* the sum of the matrix minutes along hub, stops, hub
RECURSIVE route_minutes(_, _, _, _)
route_minutes(prev, stops, venues, hub_pos) ==
    IF stops = <<>> THEN duration_minutes(prev, hub_pos)
    ELSE LET k == FirstTrue([i \in DOMAIN venues |-> venues[i].id = Head(stops).venue_id])
         IN IF k # 0 /\ venues[k].location # None
            THEN duration_minutes(prev, venues[k].location[1])
                 + route_minutes(venues[k].location[1], Tail(stops), venues, hub_pos)
            ELSE route_minutes(prev, Tail(stops), venues, hub_pos)

\* round(total_drive_minutes / 60, 2), in hundredths of an hour, of tenths of a minute
drive_hrs(minutes) ==
    IF minutes % 6 > 3 \/ (minutes % 6 = 3 /\ (minutes \div 6) % 2 = 1)
    THEN minutes \div 6 + 1
    ELSE minutes \div 6

BuildOut(trip, unassigned, warnings, uv, ua, up) ==
    [trip |-> trip, unassigned |-> unassigned, warnings |-> warnings,
     used_vehicle_ids |-> uv, used_asset_ids |-> ua, used_person_ids |-> up]

\* _build_trip_for_cluster from "Check vehicle capacity" on: st is the state the loop
\* over the venues left, crew the answer of _assign_personnel
build_trip(cluster, vehicle, hub, warnings, st, crew, uv) ==
    BuildOut(<<[vehicle_id |-> vehicle.id,
                origin_hub_id |-> hub.id,
                stops |-> st.trip_stops,
                assets |-> st.trip_assets,
                personnel |-> crew.personnel,
                total_miles |-> route_miles(hub.pos, st.trip_stops, cluster, hub.pos),
                total_drive_hrs |->
                    drive_hrs(route_minutes(hub.pos, st.trip_stops, cluster, hub.pos))]>>,
             st.all_unassigned,
             (IF check_capacity_weight(vehicle, st.total_weight)
              THEN warnings ELSE Append(warnings, "may be overloaded"))
             \o (IF crew.personnel = <<>> THEN <<"No personnel available">> ELSE <<>>),
             uv, st.used_asset_ids, crew.used_person_ids)

\* _build_trip_for_cluster after the loop over the venues
build_after_stops(cluster, wd, vehicle, hub, warnings, st, uv, used_person_ids) ==
    IF st.trip_stops = <<>>
    THEN BuildOut(None, st.all_unassigned, warnings, uv, st.used_asset_ids, used_person_ids)
    ELSE build_trip(cluster, vehicle, hub, warnings, st,
                    _assign_personnel(hub, wd, used_person_ids), uv)

\* _build_trip_for_cluster once the vehicle is looked for: pick is the vehicle found
build_with_vehicle(cluster, wd, constraints, pick, used_vehicle_ids, used_asset_ids, used_person_ids) ==
    IF pick.vehicle = None
    THEN BuildOut(None, no_vehicle_unassigned(cluster, constraints), pick.warnings,
                  used_vehicle_ids, used_asset_ids, used_person_ids)
    ELSE build_after_stops(cluster, wd, pick.vehicle[1], pick.hub, pick.warnings,
             venues_loop(cluster, 0,
                 [trip_assets |-> <<>>, trip_stops |-> <<>>, all_unassigned |-> <<>>,
                  used_asset_ids |-> used_asset_ids, total_weight |-> 0,
                  hub_assets |-> SelectSeq(assets_at_hub(wd, pick.hub.id),
                                           LAMBDA a : a.id \notin used_asset_ids)],
                 wd, constraints),
             used_vehicle_ids \cup {pick.vehicle[1].id}, used_person_ids)

\* _build_trip_for_cluster: the trip (None or <<trip>>), the unassigned demands, the
\* warnings, and the three reservation sets as the call leaves them
_build_trip_for_cluster(cluster, wd, constraints, used_vehicle_ids, used_asset_ids, used_person_ids) ==
    IF cluster = <<>>
    THEN BuildOut(None, <<>>, <<>>, used_vehicle_ids, used_asset_ids, used_person_ids)
    ELSE IF nearest_hub(wd, cluster[1]) = None
    THEN BuildOut(None, <<>>, <<"No hub found">>,
                  used_vehicle_ids, used_asset_ids, used_person_ids)
    ELSE build_with_vehicle(cluster, wd, constraints,
             choose_vehicle(nearest_hub(wd, cluster[1])[1], wd, used_vehicle_ids),
             used_vehicle_ids, used_asset_ids, used_person_ids)

\* Faulty variant of _ortools_reorder_stops: the stops are put in the order of the
\* tour but keep the order indices they had
_ortools_reorder_stops_stale(trip, new_order) ==
    LET stops == trip.stops IN
    IF Len(stops) + 1 <= 3 THEN stops
    ELSE IF new_order = <<>> THEN stops
    ELSE IF Len(new_order) = Len(stops)
    THEN [k \in DOMAIN new_order |-> stops[new_order[k]]]
    ELSE stops

\* _ortools_reorder_stops; new_order is the solver's answer: <<>> when it returns no
\* solution, else the tour's stop indices (1-based here)
_ortools_reorder_stops(trip, new_order) ==
    LET stops == trip.stops IN
    IF Len(stops) + 1 <= 3 THEN stops
    ELSE IF new_order = <<>> THEN stops
    ELSE IF Len(new_order) = Len(stops)
    THEN [k \in DOMAIN new_order |-> [stops[new_order[k]] EXCEPT !.stop_order = k]]
    ELSE stops

\* the lines of optimize_week after _build_trip_for_cluster returned b
collect(acc, b) ==
    [trips |-> acc.trips \o b.trip,
     unassigned_demands |-> acc.unassigned_demands \o b.unassigned,
     warnings |-> acc.warnings \o b.warnings,
     used_vehicle_ids |-> b.used_vehicle_ids,
     used_asset_ids |-> b.used_asset_ids,
     used_person_ids |-> b.used_person_ids]

\* the loop "for cluster in clusters"
RECURSIVE clusters_loop(_, _, _, _)
clusters_loop(clusters, acc, wd, constraints) ==
    IF clusters = <<>> THEN acc
    ELSE clusters_loop(Tail(clusters),
             collect(acc, _build_trip_for_cluster(Head(clusters), wd, constraints,
                              acc.used_vehicle_ids, acc.used_asset_ids,
                              acc.used_person_ids)),
             wd, constraints)

cluster_demand_weight(cluster, constraints) ==
    SumSeq([i \in DOMAIN cluster |->
        LET ds == SelectSeq(constraints.demands, LAMBDA d : d.venue_id = cluster[i].id)
        IN SumSeq([k \in DOMAIN ds |-> ds[k].total_weight_lbs])])

\* clusters after clusters.sort(key=total_demand_weight, reverse=True)
sorted_clusters(clusters, constraints) ==
    LET sorted == SortDesc([i \in DOMAIN clusters |->
                               [key |-> cluster_demand_weight(clusters[i], constraints),
                                val |-> clusters[i]]], <<>>)
    IN [i \in DOMAIN sorted |-> sorted[i].val]

\* Faulty variant of plan_result: the status does not look at the unassigned demands
plan_result_completed(acc, new_order) ==
    [trips |-> [i \in DOMAIN acc.trips |->
                   IF Len(acc.trips[i].stops) >= 3
                   THEN [acc.trips[i] EXCEPT !.stops =
                            _ortools_reorder_stops(acc.trips[i], new_order)]
                   ELSE acc.trips[i]],
     unassigned_demands |-> acc.unassigned_demands,
     warnings |-> acc.warnings,
     constraint_relaxations |-> <<>>,
     status |-> "completed"]

\* the lines of optimize_week after the loop over the clusters
plan_result(acc, new_order) ==
    [trips |-> [i \in DOMAIN acc.trips |->
                   IF Len(acc.trips[i].stops) >= 3
                   THEN [acc.trips[i] EXCEPT !.stops =
                            _ortools_reorder_stops(acc.trips[i], new_order)]
                   ELSE acc.trips[i]],
     unassigned_demands |-> acc.unassigned_demands,
     warnings |-> acc.warnings,
     constraint_relaxations |-> <<>>,
     status |-> IF acc.unassigned_demands # <<>> THEN "partial" ELSE "completed"]

\* optimize_week; new_order is the answer of the TSP solver for a trip of 3+ stops
optimize_week(wd, constraints, clusters, pre_used_asset_ids, new_order) ==
    plan_result(
        clusters_loop(sorted_clusters(clusters, constraints),
            [trips |-> <<>>, unassigned_demands |-> <<>>, warnings |-> <<>>,
             used_vehicle_ids |-> {}, used_asset_ids |-> pre_used_asset_ids,
             used_person_ids |-> {}],
            wd, constraints),
        new_order)

-----------------------------------------------------------------------------
(* lookahead.py *)

Disposition(action, requires_hub_return, hub_return_reason) ==
    [action |-> action, requires_hub_return |-> requires_hub_return,
     hub_return_reason |-> hub_return_reason]

_find_next_week_game_for_customer(customer_id, next_week_games) ==
    LET k == FirstTrue([i \in DOMAIN next_week_games |->
                           next_week_games[i].customer_id = customer_id])
    IN IF k = 0 THEN None ELSE <<next_week_games[k]>>

\* None, or <<game>>: the first game among the nearest ones closer than 200 miles
_find_nearby_game_next_week(venue, next_week_games) ==
    IF venue.location = None THEN None
    ELSE LET D(g) == haversine_miles(venue.location[1], g.venue.location[1])
             near == SelectSeq(next_week_games,
                               LAMBDA g : g.venue.location # None /\ D(g) < 200)
         IN IF near = <<>> THEN None
            ELSE <<near[FirstMinIndex([i \in DOMAIN near |-> D(near[i])])]>>

\* Faulty variant of determine_disposition: the season ends after week 18, not at it
determine_disposition_late(stop, next_week_games, week_number, venue, customer_id) ==
    LET leave == Disposition("leave_on_site", FALSE, "")
        nearby == _find_nearby_game_next_week(venue, next_week_games)
        by_nearby == IF nearby # None
                     THEN Disposition("reroute_to_next_venue", FALSE, "")
                     ELSE leave
        next_game == _find_next_week_game_for_customer(customer_id, next_week_games)
    IN
    IF week_number = 0 THEN leave
    ELSE IF week_number > 18
    THEN Disposition("return_to_hub", TRUE, "End of season - all assets return to hub")
    ELSE IF next_week_games = <<>> THEN leave
    ELSE IF next_game = None THEN leave
    ELSE IF next_game[1].venue_id = stop.venue_id THEN leave
    ELSE IF next_game[1].venue.location # None /\ venue.location # None
    THEN IF haversine_miles(venue.location[1], next_game[1].venue.location[1]) < 500
         THEN Disposition("reroute_to_next_venue", FALSE, "")
         ELSE Disposition("return_to_hub", TRUE, "Next venue too far - return to hub")
    ELSE by_nearby

determine_disposition(stop, next_week_games, week_number, venue, customer_id) ==
    LET leave == Disposition("leave_on_site", FALSE, "")
        nearby == _find_nearby_game_next_week(venue, next_week_games)
        by_nearby == IF nearby # None
                     THEN Disposition("reroute_to_next_venue", FALSE, "")
                     ELSE leave
        next_game == _find_next_week_game_for_customer(customer_id, next_week_games)
    IN
    IF week_number = 0 THEN leave
    ELSE IF week_number >= 18
    THEN Disposition("return_to_hub", TRUE, "End of season - all assets return to hub")
    ELSE IF next_week_games = <<>> THEN leave
    ELSE IF next_game = None THEN leave
    ELSE IF next_game[1].venue_id = stop.venue_id THEN leave
    ELSE IF next_game[1].venue.location # None /\ venue.location # None
    THEN IF haversine_miles(venue.location[1], next_game[1].venue.location[1]) < 500
         THEN Disposition("reroute_to_next_venue", FALSE, "")
         ELSE Disposition("return_to_hub", TRUE, "Next venue too far - return to hub")
    ELSE by_nearby


\* determine_post_game_disposition; games are the games of the week, where
\* demand.game.venue of a stop is found
determine_post_game_disposition(res, next_week_games, week_number, games) ==
    LET venue_of(stop) ==
            games[FirstTrue([g \in DOMAIN games |->
                                /\ games[g].venue_id = stop.demand.venue_id
                                /\ games[g].customer_id = stop.demand.customer_id])].venue
        D(stop) == determine_disposition(stop, next_week_games, week_number,
                                         venue_of(stop), stop.demand.customer_id)
        reroutes(trip) ==
            LET rs == SelectSeq(trip.stops,
                                LAMBDA stop : D(stop).action = "reroute_to_next_venue")
            IN [k \in DOMAIN rs |-> "Reroute assets"]
    IN [res EXCEPT
          !.trips = [i \in DOMAIN res.trips |->
                        [res.trips[i] EXCEPT !.stops =
                            [k \in DOMAIN res.trips[i].stops |->
                                [res.trips[i].stops[k] EXCEPT
                                    !.requires_hub_return =
                                        D(res.trips[i].stops[k]).requires_hub_return,
                                    !.hub_return_reason =
                                        D(res.trips[i].stops[k]).hub_return_reason]]]],
          !.warnings = @ \o Flatten([i \in DOMAIN res.trips |-> reroutes(res.trips[i])])]

-----------------------------------------------------------------------------
(* The TSP solver of _ortools_reorder_stops.  It is asked only for a trip of 3 or  *)
(* more stops and answers with no solution or with a tour through all the stops.   *)

Perms(n) == {f \in [1..n -> 1..n] : \A i, j \in 1..n : i # j => f[i] # f[j]}

solver_answers(clusters) ==
    {<<>>} \cup UNION {Perms(Len(clusters[i])) :
                          i \in {j \in DOMAIN clusters : Len(clusters[j]) >= 3}}

-----------------------------------------------------------------------------
(* week0.py *)

singletons(venues) == [i \in DOMAIN venues |-> <<venues[i]>>]

\* the clusters of a preseason pass (cluster_venues with its default parameters)
week0_clusters(wd, remaining_demands) ==
    LET remaining_venue_ids == {remaining_demands[k].venue_id : k \in DOMAIN remaining_demands}
    IN cluster_venues(SelectSeq(game_venues(wd), LAMBDA v : v.id \in remaining_venue_ids),
                      hub_locations(wd), max_radius_miles, max_stops)

week0_remaining(constraints, served) ==
    SelectSeq(constraints.demands,
              LAMBDA d : <<d.venue_id, d.customer_id>> \notin served)

\* the locals of optimize_week0 after an iteration of its loop; result is None when
\* the iteration did not call optimize_week
Week0Locals(c, u, s, brk) ==
    [combined |-> c, global_used_asset_ids |-> u, served_set |-> s, brk |-> brk,
     result |-> None]

\* the assets of the trips of a pass, added to global_used_asset_ids
week0_used(used, res) ==
    used \cup UNION {SeqToSet(res.trips[i].assets) : i \in DOMAIN res.trips}

\* the pairs the trips of a pass add to served_set
week0_served(served, res) ==
    served \cup
        UNION {{<<res.trips[i].stops[k].demand.venue_id,
                  res.trips[i].stops[k].demand.customer_id>> :
                    k \in DOMAIN res.trips[i].stops} : i \in DOMAIN res.trips}

\* Faulty variant of week0_after_run: a pass whose trips consumed no new asset does
\* not leave the loop
week0_after_run_unchecked(comb, used, served, res) ==
    IF Len(res.trips) = 0
    THEN Week0Locals([comb EXCEPT !.unassigned_demands = @ \o res.unassigned_demands,
                                  !.warnings = Append(@, "Pass: No trips generated")],
                     used, served, TRUE)
    ELSE Week0Locals([comb EXCEPT !.trips = @ \o res.trips,
                                  !.warnings = @ \o res.warnings
                                      \o <<"Pass: trips generated">>],
                     week0_used(used, res), week0_served(served, res),
                     ~has_unassigned(res))

\* an iteration of the loop of optimize_week0 after optimize_week returned res
week0_after_run(comb, used, served, res) ==
    IF Len(res.trips) = 0
    THEN Week0Locals([comb EXCEPT !.unassigned_demands = @ \o res.unassigned_demands,
                                  !.warnings = Append(@, "Pass: No trips generated")],
                     used, served, TRUE)
    ELSE IF Cardinality(week0_used(used, res)) - Cardinality(used) = 0
    THEN Week0Locals([comb EXCEPT !.trips = @ \o res.trips,
                                  !.warnings = @ \o res.warnings
                                      \o <<"Pass: trips generated",
                                           "Pass: No new assets consumed">>,
                                  !.unassigned_demands = @ \o res.unassigned_demands],
                     week0_used(used, res), served, TRUE)
    ELSE Week0Locals([comb EXCEPT !.trips = @ \o res.trips,
                                  !.warnings = @ \o res.warnings
                                      \o <<"Pass: trips generated">>],
                     week0_used(used, res), week0_served(served, res),
                     ~has_unassigned(res))

\* the same, with the local result of optimize_week0 set to what the pass answered
week0_ran(comb, used, served, res) ==
    [week0_after_run(comb, used, served, res) EXCEPT !.result = <<res>>]

\* an iteration of the loop of optimize_week0 once the time budget is checked
week0_run(wd, constraints, comb, used, served, remaining_demands, new_order) ==
    IF remaining_demands = <<>> THEN Week0Locals(comb, used, served, TRUE)
    ELSE IF week0_clusters(wd, remaining_demands) = <<>>
    THEN Week0Locals(comb, used, served, TRUE)
    ELSE week0_ran(comb, used, served,
             optimize_week(wd, [constraints EXCEPT !.demands = remaining_demands],
                           week0_clusters(wd, remaining_demands), used, new_order))

\* One iteration of the loop "for pass_num in range(1, MAX_PASSES + 1)" of
\* optimize_week0: the locals after it, and whether the iteration left the loop.
week0_pass(wd, constraints, comb, used, served, budget_exceeded, new_order) ==
    IF budget_exceeded
    THEN Week0Locals([comb EXCEPT !.warnings = Append(@, "Time budget exceeded")],
                     used, served, TRUE)
    ELSE week0_run(wd, constraints, comb, used, served,
                   week0_remaining(constraints, served), new_order)

\* the lines after the loop: the status of the combined result
week0_finish(comb) ==
    [comb EXCEPT !.status = IF comb.unassigned_demands = <<>> THEN "completed" ELSE "partial"]

-----------------------------------------------------------------------------
(* infeasibility.py *)

\* Faulty variant of _is_better: the comparison is reversed
_is_better_reversed(new, old) ==
    Len(new.unassigned_demands) > Len(old.unassigned_demands)

\* Faulty variant of _is_better: a result with as many unassigned demands counts as
\* better
_is_better_or_equal(new, old) ==
    Len(new.unassigned_demands) <= Len(old.unassigned_demands)

_is_better(new, old) == Len(new.unassigned_demands) < Len(old.unassigned_demands)

default_clusters(wd) ==
    cluster_venues(game_venues(wd), hub_locations(wd), max_radius_miles, max_stops)

\* Faulty variant of _step1_relax_soft_constraints: it clears the blocked ids as the
\* later steps do
_step1_unblocked(wd, new_order) ==
    optimize_week(wd,
        [build_constraints(wd) EXCEPT !.blocked_asset_ids = {},
                                      !.weight_minimize_miles = 1,
                                      !.weight_minimize_vehicles = 1,
                                      !.weight_prefer_closest_hub = 1,
                                      !.weight_minimize_rebranding = 1,
                                      !.weight_geographic_clustering = 1],
        default_clusters(wd), {}, new_order)

_step1_relax_soft_constraints(wd, new_order) ==
    optimize_week(wd,
        [build_constraints(wd) EXCEPT !.weight_minimize_miles = 1,
                                      !.weight_minimize_vehicles = 1,
                                      !.weight_prefer_closest_hub = 1,
                                      !.weight_minimize_rebranding = 1,
                                      !.weight_geographic_clustering = 1],
        default_clusters(wd), {}, new_order)

_step2_relax_branding(wd, new_order) ==
    optimize_week(wd,
        [build_constraints(wd) EXCEPT !.blocked_asset_ids = {},
                                      !.weight_minimize_rebranding = 0],
        default_clusters(wd), {}, new_order)

_step3_split_multi_stop(wd, new_order) ==
    optimize_week(wd,
        [build_constraints(wd) EXCEPT !.blocked_asset_ids = {}],
        singletons(game_venues(wd)), {}, new_order)

_step4_cross_hub(wd, new_order) ==
    optimize_week(wd,
        [build_constraints(wd) EXCEPT !.blocked_asset_ids = {},
                                      !.weight_prefer_closest_hub = 0],
        singletons(game_venues(wd)), {}, new_order)

cascade_rerun(k, wd, new_order) ==
    CASE k = 1 -> _step1_relax_soft_constraints(wd, new_order)
      [] k = 2 -> _step2_relax_branding(wd, new_order)
      [] k = 3 -> _step3_split_multi_stop(wd, new_order)
      [] k = 4 -> _step4_cross_hub(wd, new_order)

relaxation_action(k) ==
    CASE k = 1 -> "relaxed_soft_constraints"
      [] k = 2 -> "relaxed_branding"
      [] k = 3 -> "split_multi_stop"
      [] k = 4 -> "cross_hub_assignments"
      [] k = 6 -> "partial_solution"

\* what handle_infeasibility does with a rerun that is better than best_result
cascade_accept(k, res) ==
    [res EXCEPT
       !.constraint_relaxations = Append(@, [step |-> k, action |-> relaxation_action(k)]),
       !.warnings = IF k = 2
                    THEN Append(@, "Some assets may need rebranding before deployment")
                    ELSE @]

\* Faulty variant of cascade_step: it keeps the latest rerun, whatever its count of
\* unassigned demands
cascade_step_latest(k, best, rerun) ==
    IF rerun # None
    THEN [best_result |-> cascade_accept(k, rerun[1]),
          return |-> ~has_unassigned(rerun[1])]
    ELSE [best_result |-> best, return |-> FALSE]

\* one of the steps 1 to 4 of handle_infeasibility after its rerun answered (None
\* when it raised): the new best_result, and whether the cascade returns it now
cascade_step(k, best, rerun) ==
    IF rerun # None /\ _is_better(rerun[1], best)
    THEN [best_result |-> cascade_accept(k, rerun[1]),
          return |-> ~has_unassigned(rerun[1])]
    ELSE [best_result |-> best, return |-> FALSE]

\* "available" in reason.lower(), over the reasons the planner writes
mentions_available(reason) ==
    reason \in {"Only K of N available", "No vehicle with sufficient capacity available"}

\* the reason the rules of _step5_classify_unassigned give a demand, first match wins
diagnose(demand, matching_assets, total_vehicles, total_personnel) ==
    IF matching_assets = <<>>
    THEN "Asset type/model not available in inventory"
    ELSE IF \A k \in DOMAIN matching_assets : matching_assets[k].status # "at_hub"
    THEN "All assets are deployed - none at hub"
    ELSE IF total_vehicles = 0
    THEN "No vehicle with sufficient capacity available"
    ELSE IF total_personnel = 0
    THEN "No personnel available at nearest hub"
    ELSE "Insufficient resources to cover all demands this week"

\* the in-service assets of the type of a demand
matching_assets_of(demand, wd) ==
    SelectSeq(wd.assets,
        LAMBDA a : a.asset_type = demand.asset_type
                   /\ a.condition \notin {"out_of_service", "needs_repair"})

\* the drivers and lead techs of the week
total_personnel_of(wd) ==
    Len(SelectSeq(wd.personnel, LAMBDA p : p.role \in {"driver", "lead_tech"}))

\* the body of the loop of _step5_classify_unassigned
classify(demand, wd) ==
    IF mentions_available(demand.reason) THEN demand
    ELSE [demand EXCEPT !.reason = diagnose(demand, matching_assets_of(demand, wd),
                                            Len(wd.vehicles), total_personnel_of(wd))]

_step5_classify_unassigned(res, wd) ==
    [res EXCEPT !.unassigned_demands =
        [k \in DOMAIN res.unassigned_demands |-> classify(res.unassigned_demands[k], wd)]]

\* step 6 of handle_infeasibility
_step6_partial(c) ==
    IF has_unassigned(c)
    THEN [c EXCEPT !.status = "partial",
                   !.constraint_relaxations =
                       Append(@, [step |-> 6, action |-> relaxation_action(6)])]
    ELSE c

\* steps 5 and 6 of handle_infeasibility
cascade_finish(best, wd) == _step6_partial(_step5_classify_unassigned(best, wd))

-----------------------------------------------------------------------------
(* The week data of a request *)

Hub1 == [id |-> "h1", pos |-> 0]
Hub2 == [id |-> "h2", pos |-> 600]

VenueTable ==
    <<Venue("v1", 100), Venue("v2", 180), Venue("v3", 50), Venue("v4", 560),
      Venue("v5", 700)>>

venue_by_id(id) == VenueTable[FirstTrue([i \in DOMAIN VenueTable |-> VenueTable[i].id = id])]

Game(customer_id, venue_id) ==
    [customer_id |-> customer_id, venue_id |-> venue_id, venue |-> venue_by_id(venue_id)]

ContractItem(customer_id, asset_type, quantity, branding_spec) ==
    [customer_id |-> customer_id, asset_type |-> asset_type, model_version |-> "",
     quantity |-> quantity, branding_spec |-> branding_spec]

Asset(id, asset_type, status, current_hub, current_venue_id, current_branding, weight_lbs) ==
    [id |-> id, asset_type |-> asset_type, model_version |-> "", condition |-> "good",
     status |-> status, current_hub |-> current_hub, current_venue_id |-> current_venue_id,
     weight_lbs |-> weight_lbs, current_branding |-> current_branding]

Vehicle(id, home_hub_id, capacity_lbs) ==
    [id |-> id, home_hub_id |-> home_hub_id, status |-> "active",
     capacity_lbs |-> capacity_lbs]

Person(id, role, home_hub_id) == [id |-> id, role |-> role, home_hub_id |-> home_hub_id]

BrandingTask(asset_id, to_branding, status) ==
    [asset_id |-> asset_id, to_branding |-> to_branding, status |-> status]

Weeks == {0, 1, 18}

\* The week data load_week_data can return, over the choices of Init.  Vehicles are
\* active and branding tasks are not completed (the loader's filters).  The first
\* vehicle of hub h1 has a capacity of 200 lbs, the others declare none.
WeekData(week, c2_venue, c3_venue, q1, c3_items, task, n1, veh2) ==
    [week_number |-> week,
     hubs |-> <<Hub1, Hub2>>,
     games |-> <<Game("c1", "v1"), Game("c2", c2_venue)>>
               \o (IF c3_venue = "" THEN <<>> ELSE <<Game("c3", c3_venue)>>),
     contract_items |->
         <<ContractItem("c1", "heated_bench", q1, "X"),
           ContractItem("c2", "heated_bench", 1, "")>>
         \o (IF c3_items THEN <<ContractItem("c3", "dragon_shader", 1, "")>> ELSE <<>>),
     assets |->
         <<Asset("a1", "heated_bench", "at_hub", "h1", "", "", 150),
           Asset("a2", "heated_bench", "on_site", "", "v1", "X", 150),
           Asset("a3", "heated_bench", "at_hub", "h2", "", "Y", 150),
           Asset("a4", "dragon_shader", "at_hub", "h1", "", "", 200)>>,
     vehicles |->
         [i \in 1..n1 |-> Vehicle(i, "h1", IF i = 1 THEN 200 ELSE 0)]
         \o (IF veh2 THEN <<Vehicle(0, "h2", 0)>> ELSE <<>>),
     personnel |->
         <<Person("p1", "driver", "h1"), Person("p2", "service_tech", "h1"),
           Person("p3", "lead_tech", "h2")>>,
     branding_tasks |->
         IF task = "" THEN <<>> ELSE <<BrandingTask("a1", "X", task)>>]

\* The schedules load_next_week_schedule can return
NextWeekSchedules ==
    {<<>>,
     <<Game("c1", "v1")>>,
     <<Game("c1", "v2"), Game("c1", "v1")>>,
     <<Game("c1", "v5"), Game("c2", "v5")>>,
     <<Game("c3", "v2")>>}

-----------------------------------------------------------------------------
(* The request pipeline of main.optimize, steps 3 to 7 *)

MatrixIdle ==
    /\ locations = <<>>
    /\ matrix = <<>>
    /\ cached = <<>>
    /\ api_results = <<>>
    /\ mpc = "idle"
    /\ outcomes = <<>>

WriterIdle ==
    /\ store = <<>>
    /\ writers = <<>>

LatLngIdle ==
    /\ coords = <<>>
    /\ compared = <<>>

ClusterIdle ==
    /\ cluster_args = <<>>
    /\ cluster_result = <<>>

ScoreIdle ==
    /\ unscored = <<>>
    /\ scored = <<>>

BuildIdle ==
    /\ build_args = <<>>
    /\ build_out = <<>>
    /\ week_out = <<>>

LookIdle ==
    /\ disp_args = <<>>
    /\ disp_out = <<>>

FetchIdle ==
    /\ fetch = <<>>
    /\ fetch_log = <<>>

TourIdle ==
    /\ tour_args = <<>>
    /\ tour_out = <<>>

UnitIdle == BuildIdle /\ LookIdle /\ FetchIdle /\ TourIdle

Init ==
    /\ \E week \in Weeks, c2_venue \in {"v1", "v2"}, c3_venue \in {"", "v3", "v4"},
          q1 \in 1..MaxQty, c3_items \in BOOLEAN, task \in {"", "pending", "in_progress"},
          n1 \in 0..MaxVehicles, veh2 \in BOOLEAN :
          /\ c3_items => c3_venue # ""
          /\ week_data = WeekData(week, c2_venue, c3_venue, q1, c3_items, task, n1, veh2)
    /\ pc = "optimize"
    /\ result = EmptyResult
    /\ initial_result = EmptyResult
    /\ best_result = EmptyResult
    /\ step = 0
    /\ step_result = None
    /\ combined = EmptyResult
    /\ global_used_asset_ids = {}
    /\ served_set = {}
    /\ pass_num = 0
    /\ pass_result = None
    /\ MatrixIdle
    /\ WriterIdle
    /\ LatLngIdle
    /\ ClusterIdle
    /\ ScoreIdle
    /\ UnitIdle

\* main.optimize, step 5, week_number # 0: optimize_week on the clusters of step 4
OptimizeWeek ==
    /\ pc = "optimize"
    /\ week_data.week_number # 0
    /\ \E new_order \in solver_answers(default_clusters(week_data)) :
          result' = optimize_week(week_data, build_constraints(week_data),
                                  default_clusters(week_data), {}, new_order)
    /\ pc' = "infeasibility"
    /\ UNCHANGED <<week_data, initial_result, best_result, step, step_result, combined,
                   global_used_asset_ids, served_set, pass_num, pass_result>>
    /\ UNCHANGED <<matrixVars, writerVars, latlngVars, clusterVars, scoreVars, unitVars>>

\* the assignments of one iteration of the loop of optimize_week0, and the return of
\* optimize_week0 when the iteration left the loop
Week0Apply(it) ==
    /\ global_used_asset_ids' = it.global_used_asset_ids
    /\ served_set' = it.served_set
    /\ pass_result' = IF it.result = None THEN pass_result ELSE it.result
    /\ combined' = IF it.brk THEN week0_finish(it.combined) ELSE it.combined
    /\ result' = IF it.brk THEN combined' ELSE result
    /\ pc' = IF it.brk THEN "infeasibility" ELSE pc

\* main.optimize, step 5, week_number = 0: one iteration of the loop of
\* optimize_week0, and its return when the loop ends
Week0Pass ==
    /\ pc = "optimize"
    /\ week_data.week_number = 0
    /\ IF pass_num >= MAX_PASSES
       THEN /\ pass_num' = pass_num
            /\ Week0Apply(Week0Locals(combined, global_used_asset_ids, served_set, TRUE))
       ELSE /\ pass_num' = pass_num + 1
            /\ \E budget_exceeded \in BOOLEAN,
                  new_order \in solver_answers(
                      week0_clusters(week_data,
                          week0_remaining(build_constraints(week_data), served_set))) :
                  Week0Apply(week0_pass(week_data, build_constraints(week_data), combined,
                                        global_used_asset_ids, served_set,
                                        budget_exceeded, new_order))
    /\ UNCHANGED <<week_data, initial_result, best_result, step, step_result>>
    /\ UNCHANGED <<matrixVars, writerVars, latlngVars, clusterVars, scoreVars, unitVars>>

\* main.optimize, step 6, and the entry of handle_infeasibility
EnterCascade ==
    /\ pc = "infeasibility"
    /\ has_unassigned(result)
    /\ initial_result' = result
    /\ best_result' = result
    /\ step' = 1
    /\ pc' = "cascade"
    /\ UNCHANGED <<week_data, result, step_result, combined, global_used_asset_ids,
                   served_set, pass_num, pass_result>>
    /\ UNCHANGED <<matrixVars, writerVars, latlngVars, clusterVars, scoreVars, unitVars>>

SkipCascade ==
    /\ pc = "infeasibility"
    /\ ~has_unassigned(result)
    /\ pc' = "lookahead"
    /\ UNCHANGED <<week_data, result, initial_result, best_result, step, step_result,
                   combined, global_used_asset_ids, served_set, pass_num, pass_result>>
    /\ UNCHANGED <<matrixVars, writerVars, latlngVars, clusterVars, scoreVars, unitVars>>

\* the assignments of one of the steps 1 to 4 of handle_infeasibility
CascadeApply(c) ==
    /\ best_result' = c.best_result
    /\ step' = IF c.return THEN step ELSE step + 1
    /\ result' = IF c.return THEN c.best_result ELSE result
    /\ pc' = IF c.return THEN "lookahead" ELSE pc

\* handle_infeasibility, steps 1 to 4: the rerun (None when it raised) and the
\* comparison with best_result
CascadeStep ==
    /\ pc = "cascade"
    /\ step \in 1..4
    /\ \/ /\ step_result' = None
          /\ CascadeApply(cascade_step(step, best_result, step_result'))
       \/ \E new_order \in solver_answers(default_clusters(week_data)) :
             /\ step_result' = <<cascade_rerun(step, week_data, new_order)>>
             /\ CascadeApply(cascade_step(step, best_result, step_result'))
    /\ UNCHANGED <<week_data, initial_result, combined, global_used_asset_ids,
                   served_set, pass_num, pass_result>>
    /\ UNCHANGED <<matrixVars, writerVars, latlngVars, clusterVars, scoreVars, unitVars>>

\* handle_infeasibility, steps 5 and 6, and its return
CascadeFinish ==
    /\ pc = "cascade"
    /\ step = 5
    /\ best_result' = cascade_finish(best_result, week_data)
    /\ result' = best_result'
    /\ pc' = "lookahead"
    /\ UNCHANGED <<week_data, initial_result, step, step_result, combined,
                   global_used_asset_ids, served_set, pass_num, pass_result>>
    /\ UNCHANGED <<matrixVars, writerVars, latlngVars, clusterVars, scoreVars, unitVars>>

\* main.optimize, step 7
Lookahead ==
    /\ pc = "lookahead"
    /\ \E next_week_games \in NextWeekSchedules :
          result' = determine_post_game_disposition(result, next_week_games,
                                                    week_data.week_number,
                                                    week_data.games)
    /\ pc' = "done"
    /\ UNCHANGED <<week_data, initial_result, best_result, step, step_result, combined,
                   global_used_asset_ids, served_set, pass_num, pass_result>>
    /\ UNCHANGED <<matrixVars, writerVars, latlngVars, clusterVars, scoreVars, unitVars>>

Next ==
    \/ OptimizeWeek
    \/ Week0Pass
    \/ EnterCascade
    \/ SkipCascade
    \/ CascadeStep
    \/ CascadeFinish
    \/ Lookahead

Spec == Init /\ [][Next]_vars

-----------------------------------------------------------------------------
(* distance_matrix.py.  Distances are in tenths of a mile and durations in tenths  *)
(* of a minute: the code rounds both to one decimal.                               *)

DistanceEntry(miles, minutes) ==
    [distance_miles |-> miles, duration_minutes |-> minutes]

\* DistanceMatrix._haversine_estimate: 50 mph, so 1.2 minutes per road mile
_haversine_estimate(a, b) ==
    DistanceEntry(haversine_estimate(a, b), (12 * haversine_estimate(a, b) + 5) \div 10)

Pairs(locs) == (DOMAIN locs) \X (DOMAIN locs)

\* DistanceMatrix.__init__: _data, indexed by the pair <<i, j>>; a cell is None or
\* <<entry>>
DistanceMatrix(locs) ==
    [p \in Pairs(locs) |-> IF p[1] = p[2] THEN <<DistanceEntry(0, 0)>> ELSE None]

\* DistanceMatrix.get
get(data, locs, i, j) ==
    IF data[<<i, j>>] = None THEN _haversine_estimate(locs[i], locs[j])
    ELSE data[<<i, j>>][1]

\* DistanceMatrix.set
set(data, i, j, entry) == [data EXCEPT ![<<i, j>>] = <<entry>>]

\* DistanceMatrix.location_index: 0 stands for None
location_index(locs, location) == FirstTrue([i \in DOMAIN locs |-> locs[i] = location])

\* the tolerance test of _check_cache: 0.001 degree of latitude is 0.0691 mile
within_tolerance(a, b) == Abs(a - b) * 10000 <= 691

\* the pairs (i, j) a cache row populates
row_matches(locs, row) ==
    {p \in Pairs(locs) : /\ p[1] # p[2]
                         /\ within_tolerance(locs[p[1]], row.origin)
                         /\ within_tolerance(locs[p[2]], row.dest)}

\* the entry of a cache row: a missing or zero column reads as 0
row_entry(row) ==
    DistanceEntry(IF row.distance_miles = None THEN 0 ELSE row.distance_miles[1],
                  IF row.duration_minutes = None THEN 0 ELSE row.duration_minutes[1])

\* the loop "for row in rows" of _check_cache: a later row replaces an earlier one
RECURSIVE cache_rows(_, _, _)
cache_rows(rows, locs, acc) ==
    IF rows = <<>> THEN acc
    ELSE IF row_matches(locs, Head(rows)) = {} THEN cache_rows(Tail(rows), locs, acc)
    ELSE cache_rows(Tail(rows), locs,
             [p \in DOMAIN acc \cup row_matches(locs, Head(rows)) |->
                 IF p \in row_matches(locs, Head(rows)) THEN row_entry(Head(rows))
                 ELSE acc[p]])

\* _check_cache: the dict of the cached pairs; rows is None when the store is not
\* configured or the read fails, else <<the rows of distance_cache>>
_check_cache(locs, rows) ==
    IF rows = None THEN <<>> ELSE cache_rows(rows[1], locs, <<>>)

\* step 1 of get_distance_matrix: matrix.set of every cached pair
set_cached(data, cache) ==
    [p \in DOMAIN data |-> IF p \in DOMAIN cache THEN <<cache[p]>> ELSE data[p]]

\* step 2 of get_distance_matrix
missing_pairs(data) == {p \in DOMAIN data : p[1] # p[2] /\ data[p] = None}

\* sorted(a set of indices)
RECURSIVE sorted(_)
sorted(S) ==
    IF S = {} THEN <<>>
    ELSE LET m == CHOOSE x \in S : \A y \in S : x <= y
         IN <<m>> \o sorted(S \ {m})

missing_origins(data, locs) ==
    LET idx == sorted({p[1] : p \in missing_pairs(data)}) IN [k \in DOMAIN idx |-> locs[idx[k]]]

missing_dests(data, locs) ==
    LET idx == sorted({p[2] : p \in missing_pairs(data)}) IN [k \in DOMAIN idx |-> locs[idx[k]]]

\* round(dist_m / 1609.34, 1), in tenths of a mile
meters_to_miles(dist_m) == (2000 * dist_m + 160934) \div (2 * 160934)

\* round(dur_s / 60, 1), in tenths of a minute
seconds_to_minutes(dur_s) == (2 * dur_s + 6) \div 12

\* _fetch_from_google_maps for one batch (at most BATCH_SIZE origins and
\* destinations): api_result is None when no key is configured or the call raises,
\* else <<elements>>, the element of each origin and destination of the batch
_fetch_from_google_maps(origins, destinations, api_result) ==
    IF api_result = None THEN <<>>
    ELSE Flatten([i \in DOMAIN origins |->
            Flatten([j \in DOMAIN destinations |->
                IF api_result[1][<<i, j>>].status # "OK" THEN <<>>
                ELSE <<[origin |-> origins[i],
                        destination |-> destinations[j],
                        distance_miles |->
                            meters_to_miles(api_result[1][<<i, j>>].distance),
                        duration_minutes |->
                            seconds_to_minutes(api_result[1][<<i, j>>].duration)]>>])])

\* step 4 of get_distance_matrix: matrix.set of every result of the provider
RECURSIVE store_results(_, _, _)
store_results(data, locs, results) ==
    IF results = <<>> THEN data
    ELSE store_results(
             IF location_index(locs, Head(results).origin) # 0
                /\ location_index(locs, Head(results).destination) # 0
             THEN set(data, location_index(locs, Head(results).origin),
                      location_index(locs, Head(results).destination),
                      DistanceEntry(Head(results).distance_miles,
                                    Head(results).duration_minutes))
             ELSE data,
             locs, Tail(results))

\* step 4 of get_distance_matrix: the entries handed to _store_cache
cache_entries(locs, results) ==
    SelectSeq(results, LAMBDA r : /\ location_index(locs, r.origin) # 0
                                  /\ location_index(locs, r.destination) # 0)

\* _store_cache: how the write ended.  It returns at once when the store is not
\* configured or there is nothing to write; an exception of httpx.post is swallowed.
_store_cache(entries, configured, post_raised) ==
    IF ~configured \/ entries = <<>> THEN "skipped"
    ELSE IF post_raised THEN "failed"
    ELSE "stored"

\* Faulty variant of fill_haversine: only the pairs i < j are estimated
fill_haversine_upper(data, locs) ==
    [p \in DOMAIN data |->
        IF p[1] < p[2] /\ data[p] = None
        THEN <<_haversine_estimate(locs[p[1]], locs[p[2]])>>
        ELSE data[p]]

\* step 5 of get_distance_matrix
fill_haversine(data, locs) ==
    [p \in DOMAIN data |->
        IF p[1] # p[2] /\ data[p] = None
        THEN <<_haversine_estimate(locs[p[1]], locs[p[2]])>>
        ELSE data[p]]

-----------------------------------------------------------------------------
(* The inputs of get_distance_matrix *)

\* lists of unique locations, as WeekData.get_all_locations builds them
LocationLists == {<<>>, <<0>>, <<0, 100>>, <<0, 100, 180>>}

\* the rows the distance_cache table can hold
CacheRow ==
    {[origin |-> o, dest |-> d, distance_miles |-> v[1], duration_minutes |-> v[2]] :
        o \in {0, 100, 180}, d \in {0, 100, 180},
        v \in {<<None, None>>, <<<<500>>, <<600>>>>}}

CacheTables == UNION {[1..k -> CacheRow] : k \in 0..MaxRows}

\* the elements the provider can answer for a pair of different locations
Elements ==
    {[status |-> "ZERO_RESULTS", distance |-> 0, duration |-> 0],
     [status |-> "OK", distance |-> 160934, duration |-> 7200]}

\* the elements it can answer for an origin that is also the destination: no route,
\* a route of length zero, or a route that leaves the point and comes back
ElementsSame ==
    Elements \cup {[status |-> "OK", distance |-> 0, duration |-> 0]}

ApiResults(origins, destinations) ==
    {f \in [(DOMAIN origins) \X (DOMAIN destinations) -> ElementsSame] :
        \A p \in DOMAIN f : origins[p[1]] # destinations[p[2]] => f[p] \in Elements}

-----------------------------------------------------------------------------
(* get_distance_matrix *)

PlanIdle ==
    /\ week_data = WeekData(1, "v1", "", 1, FALSE, "", 0, FALSE)
    /\ pc = "matrix"
    /\ result = EmptyResult
    /\ initial_result = EmptyResult
    /\ best_result = EmptyResult
    /\ step = 0
    /\ step_result = None
    /\ combined = EmptyResult
    /\ global_used_asset_ids = {}
    /\ served_set = {}
    /\ pass_num = 0
    /\ pass_result = None

\* no external call was made yet
NoCalls == [cache_read |-> "", provider |-> "", cache_write |-> ""]

InitMatrix ==
    /\ PlanIdle
    /\ WriterIdle
    /\ LatLngIdle
    /\ ClusterIdle
    /\ ScoreIdle
    /\ UnitIdle
    /\ locations \in LocationLists
    /\ matrix = <<>>
    /\ cached = <<>>
    /\ api_results = <<>>
    /\ mpc = "start"
    /\ outcomes = NoCalls

\* the assignments of steps 1 and 2, and the two early returns; read tells how the
\* read of distance_cache ended
CacheApply(cache, read) ==
    /\ cached' = cache
    /\ outcomes' = [outcomes EXCEPT !.cache_read = read]
    /\ matrix' = set_cached(DistanceMatrix(locations), cache)
    /\ mpc' = IF missing_pairs(matrix') = {} THEN "returned" ELSE "fetch"

\* get_distance_matrix up to step 2: the empty matrix, the cached pairs, the missing
\* pairs
CheckCache ==
    /\ mpc = "start"
    /\ IF Len(locations) <= 1
       THEN /\ matrix' = DistanceMatrix(locations)
            /\ cached' = cached
            /\ outcomes' = outcomes
            /\ mpc' = "returned"
       ELSE \/ \E read \in {"unconfigured", "failed"} :
                  CacheApply(_check_cache(locations, None), read)
            \/ \E rows \in CacheTables :
                  CacheApply(_check_cache(locations, <<rows>>), "ok")
    /\ UNCHANGED <<locations, api_results>>
    /\ UNCHANGED <<planVars, writerVars, latlngVars, clusterVars, scoreVars, unitVars>>

\* get_distance_matrix, step 3
FetchFromGoogleMaps ==
    /\ mpc = "fetch"
    /\ \/ /\ api_results' = _fetch_from_google_maps(missing_origins(matrix, locations),
                                                    missing_dests(matrix, locations), None)
          /\ \E ended \in {"no_key", "raised"} :
                outcomes' = [outcomes EXCEPT !.provider = ended]
       \/ \E api_result \in ApiResults(missing_origins(matrix, locations),
                                       missing_dests(matrix, locations)) :
             /\ api_results' = _fetch_from_google_maps(missing_origins(matrix, locations),
                                                       missing_dests(matrix, locations),
                                                       <<api_result>>)
             /\ outcomes' = [outcomes EXCEPT !.provider = "answered"]
    /\ mpc' = "store"
    /\ UNCHANGED <<locations, matrix, cached>>
    /\ UNCHANGED <<planVars, writerVars, latlngVars, clusterVars, scoreVars, unitVars>>

\* get_distance_matrix, steps 4 and 5, and its return
StoreAndFill ==
    /\ mpc = "store"
    /\ matrix' = fill_haversine(store_results(matrix, locations, api_results), locations)
    /\ \E post_raised \in BOOLEAN :
          outcomes' = [outcomes EXCEPT !.cache_write =
                       _store_cache(cache_entries(locations, api_results),
                                    outcomes.cache_read # "unconfigured", post_raised)]
    /\ mpc' = "returned"
    /\ UNCHANGED <<locations, cached, api_results>>
    /\ UNCHANGED <<planVars, writerVars, latlngVars, clusterVars, scoreVars, unitVars>>

NextMatrix ==
    \/ CheckCache
    \/ FetchFromGoogleMaps
    \/ StoreAndFill

SpecMatrix == InitMatrix /\ [][NextMatrix]_vars

-----------------------------------------------------------------------------
(* writer.py.  The store is the set of rows of each table; a call of _post or      *)
(* _patch is one step, so the calls of two requests interleave freely.             *)

Requests == {1, 2}

\* uuid4(): the n-th identifier request r draws; no other call returns it
uuid4(r, n) == <<r, n>>

EmptyStore ==
    [optimizer_runs |-> {}, trips |-> {}, trip_stops |-> {}, trip_assets |-> {},
     trip_personnel |-> {}]

\* _post: the rows are inserted into the table
_post(tables, table, rows) == [tables EXCEPT ![table] = @ \cup rows]

\* Faulty variant of _patch: the filter id = eq.row_id is missing
_patch_unfiltered(tables, table, row_id, data) ==
    [tables EXCEPT ![table] =
        {[c \in DOMAIN row |-> IF c \in DOMAIN data THEN data[c] ELSE row[c]] : row \in @}]

\* _patch: the rows of the table with id = row_id take the columns of data
_patch(tables, table, row_id, data) ==
    [tables EXCEPT ![table] =
        {IF row.id = row_id
         THEN [c \in DOMAIN row |-> IF c \in DOMAIN data THEN data[c] ELSE row[c]]
         ELSE row : row \in @}]

\* run_data of write_results; the columns it does not give are null
run_data(run_id) ==
    [id |-> run_id, status |-> "running", completed_at |-> None, duration_ms |-> None,
     trips_generated |-> None, errors |-> None]

\* update_data of write_results; trip_errors are the trips whose write raised
update_data(res, trips_written, trip_errors) ==
    [status |-> res.status, completed_at |-> <<"now">>, duration_ms |-> <<"elapsed">>,
     trips_generated |-> <<trips_written>>,
     errors |-> IF trip_errors = <<>> THEN None ELSE <<trip_errors>>]

\* Faulty variant of failed_data: the status of the run is left as it was inserted
failed_data_running ==
    [status |-> "running", completed_at |-> <<"now">>, duration_ms |-> <<"elapsed">>,
     errors |-> <<"exception">>]

\* the columns of the patch in the except branch of write_results
failed_data ==
    [status |-> "failed", completed_at |-> <<"now">>, duration_ms |-> <<"elapsed">>,
     errors |-> <<"exception">>]

ASSET_BATCH == 100

\* the loop "for i in range(0, len(asset_rows), 100)": one call per batch
RECURSIVE asset_batches(_)
asset_batches(asset_rows) ==
    IF asset_rows = <<>> THEN <<>>
    ELSE IF Len(asset_rows) <= ASSET_BATCH
    THEN <<[table |-> "trip_assets", rows |-> SeqToSet(asset_rows)]>>
    ELSE <<[table |-> "trip_assets", rows |-> SeqToSet(SubSeq(asset_rows, 1, ASSET_BATCH))]>>
         \o asset_batches(SubSeq(asset_rows, ASSET_BATCH + 1, Len(asset_rows)))

\* Faulty variant of _write_trip: the stops are written before the trip row
_write_trip_stops_first(trip, run_id, r, n) ==
    [k \in DOMAIN trip.stops |->
        [table |-> "trip_stops",
         rows |-> {[id |-> uuid4(r, n + k), trip_id |-> uuid4(r, n),
                    venue_id |-> trip.stops[k].venue_id,
                    stop_order |-> trip.stops[k].stop_order]}]]
    \o <<[table |-> "trips",
          rows |-> {[id |-> uuid4(r, n), optimizer_run_id |-> run_id,
                     vehicle_id |-> trip.vehicle_id]}]>>

\* _write_trip: the calls of _post it makes, in their order, each with its table and
\* its rows; n numbers the first identifier it draws (the trip's)
_write_trip(trip, run_id, r, n) ==
    <<[table |-> "trips",
       rows |-> {[id |-> uuid4(r, n), optimizer_run_id |-> run_id,
                  vehicle_id |-> trip.vehicle_id]}]>>
    \o [k \in DOMAIN trip.stops |->
           [table |-> "trip_stops",
            rows |-> {[id |-> uuid4(r, n + k), trip_id |-> uuid4(r, n),
                       venue_id |-> trip.stops[k].venue_id,
                       stop_order |-> trip.stops[k].stop_order]}]]
    \o asset_batches([k \in DOMAIN trip.assets |->
                         [trip_id |-> uuid4(r, n), asset_id |-> trip.assets[k]]])
    \o (IF trip.personnel # <<>>
        THEN <<[table |-> "trip_personnel",
                rows |-> {[trip_id |-> uuid4(r, n),
                           person_id |-> trip.personnel[k].person_id,
                           role_on_trip |-> trip.personnel[k].role_on_trip] :
                             k \in DOMAIN trip.personnel}]>>
        ELSE <<>>)

\* the locals of write_results when it is called
Writer(res, configured) ==
    [pos |-> "start", result |-> res, configured |-> configured, run_id |-> None,
     ids |-> 0, trip |-> 1, call |-> 1, trips_written |-> 0, trip_errors |-> <<>>]

\* the entry of trip_errors for a trip whose write raised: it names the venue of
\* the trip's first stop (a venue's name is its id here)
trip_error(trip) == IF trip.stops # <<>> THEN trip.stops[1].venue_id ELSE "unknown"

\* Faulty variant of trip_done: a trip whose write raised ends the loop
trip_done_abort(w, written) ==
    [w EXCEPT !.trip = IF written THEN @ + 1 ELSE Len(w.result.trips) + 1,
              !.call = 1,
              !.ids = @ + 1 + Len(w.result.trips[w.trip].stops),
              !.trips_written = IF written THEN @ + 1 ELSE @,
              !.trip_errors = IF written THEN @
                              ELSE Append(@, trip_error(w.result.trips[w.trip])),
              !.pos = IF written /\ w.trip < Len(w.result.trips) THEN "trips" ELSE "patch"]

\* the locals after the loop body of write_results ended for a trip: written, or
\* raised inside _write_trip
trip_done(w, written) ==
    [w EXCEPT !.trip = @ + 1,
              !.call = 1,
              !.ids = @ + 1 + Len(w.result.trips[w.trip].stops),
              !.trips_written = IF written THEN @ + 1 ELSE @,
              !.trip_errors = IF written THEN @
                              ELSE Append(@, trip_error(w.result.trips[w.trip])),
              !.pos = IF w.trip = Len(w.result.trips) THEN "patch" ELSE "trips"]

\* the results the requests write: what the planner returns for three weeks
WriterWeeks ==
    {WeekData(1, "v1", "", 1, FALSE, "", 0, FALSE),
     WeekData(1, "v1", "", 1, FALSE, "", 1, FALSE),
     WeekData(1, "v2", "v4", 2, TRUE, "", 1, TRUE)}

WriterResults ==
    {optimize_week(wd, build_constraints(wd), default_clusters(wd), {}, <<>>) :
        wd \in WriterWeeks}

\* what a call of the store can do: answer, raise without having written, or raise
\* after the store applied the call (the reply is lost or not read within the timeout)
Outcomes == {"ok", "raise", "raise_applied"}

InitWriter ==
    /\ PlanIdle
    /\ MatrixIdle
    /\ LatLngIdle
    /\ ClusterIdle
    /\ ScoreIdle
    /\ UnitIdle
    /\ store = EmptyStore
    /\ \E configured \in BOOLEAN :
          writers \in [Requests -> {Writer(res, configured) : res \in WriterResults}]

\* write_results up to step 1: the early return without a store, or the insert of
\* the optimizer_runs row
InsertRun(r) ==
    /\ writers[r].pos = "start"
    /\ IF ~writers[r].configured
       THEN /\ writers' = [writers EXCEPT ![r].pos = "returned",
                                          ![r].run_id = <<uuid4(r, 0)>>,
                                          ![r].ids = 1]
            /\ store' = store
       ELSE \E outcome \in Outcomes :
               /\ store' = IF outcome = "raise" THEN store
                           ELSE _post(store, "optimizer_runs", {run_data(uuid4(r, 0))})
               /\ writers' = [writers EXCEPT
                     ![r].run_id = <<uuid4(r, 0)>>,
                     ![r].ids = 1,
                     ![r].pos = IF outcome # "ok" THEN "except"
                                ELSE IF writers[r].result.trips = <<>> THEN "patch"
                                ELSE "trips"]
    /\ UNCHANGED <<planVars, matrixVars, latlngVars, clusterVars, scoreVars, unitVars>>

\* one call of _post inside _write_trip, for the trip the loop of step 2 is at
WriteTrip(r) ==
    /\ writers[r].pos = "trips"
    /\ LET w == writers[r]
           calls == _write_trip(w.result.trips[w.trip], w.run_id[1], r, w.ids)
       IN \E outcome \in Outcomes :
             /\ store' = IF outcome = "raise" THEN store
                         ELSE _post(store, calls[w.call].table, calls[w.call].rows)
             /\ writers' = [writers EXCEPT ![r] =
                   IF outcome # "ok" THEN trip_done(w, FALSE)
                   ELSE IF w.call = Len(calls) THEN trip_done(w, TRUE)
                   ELSE [w EXCEPT !.call = @ + 1]]
    /\ UNCHANGED <<planVars, matrixVars, latlngVars, clusterVars, scoreVars, unitVars>>

\* write_results, step 3: the patch of the optimizer_runs row, and the return
PatchRun(r) ==
    /\ writers[r].pos = "patch"
    /\ LET w == writers[r] IN
       \E outcome \in Outcomes :
          /\ store' = IF outcome = "raise" THEN store
                      ELSE _patch(store, "optimizer_runs", w.run_id[1],
                                  update_data(w.result, w.trips_written, w.trip_errors))
          /\ writers' = [writers EXCEPT
                ![r].pos = IF outcome = "ok" THEN "returned" ELSE "except"]
    /\ UNCHANGED <<planVars, matrixVars, latlngVars, clusterVars, scoreVars, unitVars>>

\* the except branch of write_results: the patch to failed, whose own failure is
\* swallowed, and the re-raise
MarkFailed(r) ==
    /\ writers[r].pos = "except"
    /\ \E outcome \in Outcomes :
          store' = IF outcome = "raise" THEN store
                   ELSE _patch(store, "optimizer_runs", writers[r].run_id[1], failed_data)
    /\ writers' = [writers EXCEPT ![r].pos = "raised"]
    /\ UNCHANGED <<planVars, matrixVars, latlngVars, clusterVars, scoreVars, unitVars>>

NextWriter ==
    \/ \E r \in Requests : InsertRun(r)
    \/ \E r \in Requests : WriteTrip(r)
    \/ \E r \in Requests : PatchRun(r)
    \/ \E r \in Requests : MarkFailed(r)

SpecWriter == InitWriter /\ [][NextWriter]_vars

-----------------------------------------------------------------------------
(* data_loader.LatLng.  A latitude or longitude is an integer number of 1e-7       *)
(* degree, so that the sixth decimal is the tens digit.                            *)

\* round(x, 6), in units of 1e-6 degree: to the nearest, a tie to the even neighbour
round6(x) ==
    LET q == x \div 10
        rem == x % 10
    IN IF rem < 5 THEN q
       ELSE IF rem > 5 THEN q + 1
       ELSE IF q % 2 = 0 THEN q ELSE q + 1

LatLng(lat, lng) == [lat |-> lat, lng |-> lng]

\* Faulty variant of __hash__: the latitude is hashed as given
__hash__unrounded(self) == <<self.lat, round6(self.lng)>>

\* LatLng.__hash__: the tuple that is hashed (equal tuples have equal hashes)
__hash__(self) == <<round6(self.lat), round6(self.lng)>>

\* LatLng.__eq__ on two LatLng
__eq__(self, other) ==
    /\ round6(self.lat) = round6(other.lat)
    /\ round6(self.lng) = round6(other.lng)

\* the coordinates compared: latitudes around 0, longitudes around 0 and around a
\* rounding boundary
Coordinates ==
    {LatLng(lat, lng) : lat \in (0 - MaxCoord)..MaxCoord, lng \in {-6, 0, 4, 15}}

InitLatLng ==
    /\ PlanIdle
    /\ MatrixIdle
    /\ WriterIdle
    /\ ClusterIdle
    /\ ScoreIdle
    /\ UnitIdle
    /\ coords \in Coordinates \X Coordinates
    /\ compared = <<>>

\* a == b, hash(a) and hash(b) for the two coordinates
Compare ==
    /\ compared = <<>>
    /\ compared' = <<[eq |-> __eq__(coords[1], coords[2]),
                      hash_self |-> __hash__(coords[1]),
                      hash_other |-> __hash__(coords[2])]>>
    /\ UNCHANGED coords
    /\ UNCHANGED <<planVars, matrixVars, writerVars, clusterVars, scoreVars, unitVars>>

NextLatLng == Compare

SpecLatLng == InitLatLng /\ [][NextLatLng]_vars

-----------------------------------------------------------------------------
(* cluster_venues on its own *)

\* the venues it is given: five with a location, one without
VenuePool ==
    {Venue("u1", 160), Venue("u2", 300), Venue("u3", 440), Venue("u4", 470),
     Venue("u5", 20), VenueNoLoc("u6")}

\* lists of different venues, as WeekData.game_venues builds them
VenueLists ==
    UNION {{f \in [1..n -> VenuePool] : \A i, j \in 1..n : i # j => f[i] # f[j]} :
              n \in 0..MaxVenues}

ClusterArgs ==
    [venues : VenueLists,
     hub_locations : {<<>>, <<0>>, <<0, 600>>},
     max_radius_miles : {100, max_radius_miles},
     max_stops : {2, max_stops}]

InitCluster ==
    /\ PlanIdle
    /\ MatrixIdle
    /\ WriterIdle
    /\ LatLngIdle
    /\ ScoreIdle
    /\ UnitIdle
    /\ cluster_args \in ClusterArgs
    /\ cluster_result = <<>>

\* a call of cluster_venues; the answer is kept as <<clusters>>
ClusterVenues ==
    /\ cluster_result = <<>>
    /\ cluster_result' = <<cluster_venues(cluster_args.venues, cluster_args.hub_locations,
                                          cluster_args.max_radius_miles,
                                          cluster_args.max_stops)>>
    /\ UNCHANGED cluster_args
    /\ UNCHANGED <<planVars, matrixVars, writerVars, latlngVars, scoreVars, unitVars>>

NextCluster == ClusterVenues

SpecCluster == InitCluster /\ [][NextCluster]_vars

-----------------------------------------------------------------------------
(* scoring.py.  A component score is an integer number of thousandths of a point,  *)
(* optimizer_score and average_score are in tenths of a point (the code rounds     *)
(* them to one decimal).  A trip is given with what the lookups by label find:     *)
(* hub is the location of its origin hub in the matrix (None when no label         *)
(* matches), stop_locs the locations of its stops (None likewise).  total_miles    *)
(* is in tenths of a mile, total_drive_hrs in hundredths of an hour.               *)

Max(a, b) == IF a >= b THEN a ELSE b
Min(a, b) == IF a <= b THEN a ELSE b

\* round(num / den, 0) for den > 0: to the nearest integer, a tie to the even one
round_ratio(num, den) ==
    LET q == num \div den
        rem == num % den
    IN IF 2 * rem < den THEN q
       ELSE IF 2 * rem > den THEN q + 1
       ELSE IF q % 2 = 0 THEN q ELSE q + 1

\* the largest straight line from the hub to a stop found in the matrix
RECURSIVE max_straight_line(_, _)
max_straight_line(hub_loc, stop_locs) ==
    IF stop_locs = <<>> THEN 0
    ELSE IF Head(stop_locs) = None THEN max_straight_line(hub_loc, Tail(stop_locs))
    ELSE Max(haversine_miles(hub_loc, Head(stop_locs)[1]),
             max_straight_line(hub_loc, Tail(stop_locs)))

\* adjusted_ratio * 100 = 2 * max_straight_line / total_miles / 0.77 * 100, kept to
\* the tenth of a point
_score_distance_efficiency(trip) ==
    IF trip.total_miles <= 0 THEN 100000
    ELSE IF trip.hub = None THEN 50000
    ELSE IF max_straight_line(trip.hub[1], trip.stop_locs) <= 0 THEN 50000
    ELSE Max(0, Min(100000,
             100 * ((2000000 * max_straight_line(trip.hub[1], trip.stop_locs))
                        \div (77 * trip.total_miles))))

\* the number of assets of a trip whose type is in a set
count_types(assets, types) == Cardinality({k \in DOMAIN assets : assets[k] \in types})

\* sum(weight_estimates.get(a.asset_type, 100) for a in trip.assets)
score_total_weight(assets) ==
    150 * count_types(assets, {"heated_bench", "cooling_bench", "hybrid_bench"})
    + 200 * count_types(assets, {"dragon_shader"})
    + 50 * count_types(assets, {"heated_foot_deck"})
    + 100 * (Len(assets)
             - count_types(assets, {"heated_bench", "cooling_bench", "hybrid_bench",
                                    "dragon_shader", "heated_foot_deck"}))

\* the score of a utilization total_weight / 10000
utilization_score(total_weight) ==
    IF 5000 <= total_weight /\ total_weight <= 9000 THEN 100000
    ELSE IF total_weight > 9000 THEN Max(60000, 100000 - (total_weight - 9000) * 20)
    ELSE Max(20000, total_weight * 20)

_score_capacity_utilization(trip) ==
    IF trip.assets = <<>> THEN 0 ELSE utilization_score(score_total_weight(trip.assets))

\* ratio = total_drive_hrs / 11
_score_time_efficiency(trip) ==
    IF trip.total_drive_hrs <= 0 THEN 100000
    ELSE IF trip.total_drive_hrs <= 770 THEN 100000
    ELSE IF trip.total_drive_hrs <= 990
    THEN 80000 + ((990 - trip.total_drive_hrs) * 1000) \div 11
    ELSE IF trip.total_drive_hrs <= 1100
    THEN 50000 + ((1100 - trip.total_drive_hrs) * 3000) \div 11
    ELSE Max(0, 50000 - ((trip.total_drive_hrs - 1100) * 1000) \div 11)

penalties(action) ==
    CASE action = "relaxed_soft_constraints" -> 10
      [] action = "relaxed_branding" -> 20
      [] action = "split_multi_stop" -> 15
      [] action = "cross_hub_assignments" -> 25
      [] action = "partial_solution" -> 30
      [] OTHER -> 10

_score_constraint_satisfaction(res) ==
    IF res.constraint_relaxations = <<>> THEN 100000
    ELSE Max(0, 100000 - 1000 * SumSeq([k \in DOMAIN res.constraint_relaxations |->
                                           penalties(res.constraint_relaxations[k].action)]))

_score_multi_stop_bonus(trip) ==
    IF Len(trip.stop_locs) <= 1 THEN 50000
    ELSE IF Len(trip.stop_locs) = 2 THEN 75000
    ELSE IF Len(trip.stop_locs) = 3 THEN 90000
    ELSE 100000

\* score_trip: round(max(0, min(100, total)), 1), in tenths of a point
score_trip(trip, res) ==
    round_ratio(Max(0, Min(100000,
                    (40 * _score_distance_efficiency(trip)
                     + 20 * _score_capacity_utilization(trip)
                     + 15 * _score_time_efficiency(trip)
                     + 15 * _score_constraint_satisfaction(res)
                     + 10 * _score_multi_stop_bonus(trip)) \div 100)),
                100)

\* Faulty variant of unassigned_penalty: the result is not held at 0
unassigned_penalty_unclamped(average_score, unassigned_demands) ==
    IF unassigned_demands # <<>>
    THEN average_score - Min(300, Len(unassigned_demands) * 50)
    ELSE average_score

\* the lines "Penalty for unassigned demands" of score_run
unassigned_penalty(average_score, unassigned_demands) ==
    IF unassigned_demands # <<>>
    THEN Max(0, average_score - Min(300, Len(unassigned_demands) * 50))
    ELSE average_score

\* score_run
score_run(res) ==
    IF res.trips = <<>>
    THEN [res EXCEPT !.average_score = IF has_unassigned(res) THEN 0 ELSE 1000]
    ELSE LET trips == [i \in DOMAIN res.trips |->
                          [res.trips[i] EXCEPT !.optimizer_score =
                              score_trip(res.trips[i], res)]]
         IN [res EXCEPT
               !.trips = trips,
               !.average_score =
                   unassigned_penalty(
                       round_ratio(SumSeq([i \in DOMAIN trips |-> trips[i].optimizer_score]),
                                   Len(trips)),
                       res.unassigned_demands)]

ScoredTrip(total_miles, hub, stop_locs, assets, total_drive_hrs) ==
    [total_miles |-> total_miles, hub |-> hub, stop_locs |-> stop_locs,
     assets |-> assets, total_drive_hrs |-> total_drive_hrs, optimizer_score |-> 0]

\* the trips scored: a direct round trip; a trip of no miles; a trip from a hub the
\* matrix does not know, half full; a long detour that carries nothing and exceeds
\* the driving limit; a trip whose venues the matrix does not know, full; a trip
\* loaded twice over
TripPool ==
    {ScoredTrip(2600, <<0>>, <<<<100>>>>, <<"heated_bench">>, 520),
     ScoredTrip(0, <<0>>, <<<<100>>, <<180>>>>, <<>>, 0),
     ScoredTrip(3000, None, <<<<100>>, <<180>>, <<50>>>>,
                [k \in 1..34 |-> "heated_bench"], 900),
     ScoredTrip(50000, <<0>>, <<<<20>>>>, <<>>, 2000),
     ScoredTrip(4000, <<0>>, <<None, None, None, None>>,
                [k \in 1..50 |-> "dragon_shader"], 1050),
     ScoredTrip(2600, <<0>>, <<<<100>>>>, [k \in 1..100 |-> "dragon_shader"], 1200)}

RelaxationLogs ==
    {<<>>,
     <<[step |-> 1, action |-> "relaxed_soft_constraints"]>>,
     <<[step |-> 2, action |-> "relaxed_branding"], [step |-> 6, action |-> "partial_solution"]>>,
     <<[step |-> 1, action |-> "relaxed_soft_constraints"],
       [step |-> 2, action |-> "relaxed_branding"],
       [step |-> 3, action |-> "split_multi_stop"],
       [step |-> 4, action |-> "cross_hub_assignments"],
       [step |-> 6, action |-> "partial_solution"],
       [step |-> 7, action |-> "other"]>>}

UnscoredResults ==
    {[trips |-> trips,
      unassigned_demands |-> [k \in 1..n |-> "demand"],
      constraint_relaxations |-> log,
      average_score |-> 0] :
        trips \in UNION {[1..m -> TripPool] : m \in 0..MaxScoredTrips},
        n \in 0..MaxUnassigned,
        log \in RelaxationLogs}

InitScore ==
    /\ PlanIdle
    /\ MatrixIdle
    /\ WriterIdle
    /\ LatLngIdle
    /\ ClusterIdle
    /\ UnitIdle
    /\ unscored \in UnscoredResults
    /\ scored = <<>>

\* main.optimize, step 8: a call of score_run; the answer is kept as <<result>>
ScoreRun ==
    /\ scored = <<>>
    /\ scored' = <<score_run(unscored)>>
    /\ UNCHANGED unscored
    /\ UNCHANGED <<planVars, matrixVars, writerVars, latlngVars, clusterVars, unitVars>>

NextScore == ScoreRun

SpecScore == InitScore /\ [][NextScore]_vars

-----------------------------------------------------------------------------
(* _build_trip_for_cluster and optimize_week on their own: the week data include a *)
(* venue without coordinates, a venue far from every hub, weeks without hubs, and  *)
(* the personnel of the first hub in several orders.                               *)

VenueUnlocated == VenueNoLoc("v6")
VenueFar == Venue("v7", 300)

GameAt(customer_id, venue) ==
    [customer_id |-> customer_id, venue_id |-> venue.id, venue |-> venue]

\* the personnel lists of hub h1, in the order the loader returns them
CrewLists ==
    {<<>>,
     <<Person("p1", "driver", "h1"), Person("p2", "service_tech", "h1")>>,
     <<Person("p2", "service_tech", "h1"), Person("p1", "driver", "h1")>>,
     <<Person("p2", "service_tech", "h1"), Person("p4", "lead_tech", "h1")>>,
     <<Person("p4", "lead_tech", "h1"), Person("p2", "service_tech", "h1")>>,
     <<Person("p4", "lead_tech", "h1")>>}

HubLists == {<<>>, <<Hub1>>, <<Hub1, Hub2>>}

\* The week data given to the planner: c1 plays at c1_venue and needs q1 benches
\* (and a shader when c1_shader), c2 plays at v2 and needs one bench.
BuildWeek(hubs, c1_venue, q1, c1_shader, n1, veh2, crew) ==
    [week_number |-> 1,
     hubs |-> hubs,
     games |-> <<GameAt("c1", c1_venue), GameAt("c2", Venue("v2", 180))>>,
     contract_items |->
         <<ContractItem("c1", "heated_bench", q1, "X")>>
         \o (IF c1_shader THEN <<ContractItem("c1", "dragon_shader", 1, "")>> ELSE <<>>)
         \o <<ContractItem("c2", "heated_bench", 1, "")>>,
     assets |->
         <<Asset("a1", "heated_bench", "at_hub", "h1", "", "", 150),
           Asset("a2", "heated_bench", "on_site", "", "v1", "X", 150),
           Asset("a3", "heated_bench", "at_hub", "h2", "", "Y", 150),
           Asset("a4", "dragon_shader", "at_hub", "h1", "", "", 200)>>,
     vehicles |->
         [i \in 1..n1 |-> Vehicle(i, "h1", IF i = 1 THEN 200 ELSE 0)]
         \o (IF veh2 THEN <<Vehicle(0, "h2", 0)>> ELSE <<>>),
     personnel |-> crew \o <<Person("p3", "lead_tech", "h2")>>,
     branding_tasks |-> <<>>]

BuildWeeks ==
    {BuildWeek(hubs, c1_venue, q1, c1_shader, n1, veh2, crew) :
        hubs \in HubLists,
        c1_venue \in {Venue("v1", 100), Venue("v2", 180), VenueUnlocated, VenueFar},
        q1 \in 1..MaxQty, c1_shader \in BOOLEAN, n1 \in 0..MaxVehicles,
        veh2 \in BOOLEAN, crew \in CrewLists}

\* the reservations optimize_week holds when it reaches a cluster: none, or the first
\* vehicle, the first bench and the driver of hub h1
Reservations ==
    {[used_vehicle_ids |-> {}, used_asset_ids |-> {}, used_person_ids |-> {}],
     [used_vehicle_ids |-> {1}, used_asset_ids |-> {"a1"}, used_person_ids |-> {"p1"}]}

BuildArgs(wd, cluster, used) ==
    [week_data |-> wd, constraints |-> build_constraints(wd), cluster |-> cluster,
     used |-> used]

InitBuild ==
    /\ PlanIdle
    /\ MatrixIdle
    /\ WriterIdle
    /\ LatLngIdle
    /\ ClusterIdle
    /\ ScoreIdle
    /\ \E wd \in BuildWeeks, used \in Reservations :
          \E cluster \in SeqToSet(default_clusters(wd)) :
              build_args = <<BuildArgs(wd, cluster, used)>>
    /\ build_out = <<>>
    /\ week_out = <<>>
    /\ LookIdle
    /\ FetchIdle
    /\ TourIdle

\* optimize_week, the body of the loop over the clusters: one call of
\* _build_trip_for_cluster
BuildTrip ==
    /\ build_out = <<>>
    /\ build_out' = <<_build_trip_for_cluster(build_args[1].cluster,
                          build_args[1].week_data, build_args[1].constraints,
                          build_args[1].used.used_vehicle_ids,
                          build_args[1].used.used_asset_ids,
                          build_args[1].used.used_person_ids)>>
    /\ UNCHANGED <<build_args, week_out, lookVars, fetchVars, tourVars>>
    /\ UNCHANGED <<planVars, matrixVars, writerVars, latlngVars, clusterVars, scoreVars>>

\* main.optimize, step 5: optimize_week on the clusters of the week
PlanWeek ==
    /\ week_out = <<>>
    /\ week_out' = <<optimize_week(build_args[1].week_data, build_args[1].constraints,
                                   default_clusters(build_args[1].week_data), {}, <<>>)>>
    /\ UNCHANGED <<build_args, build_out, lookVars, fetchVars, tourVars>>
    /\ UNCHANGED <<planVars, matrixVars, writerVars, latlngVars, clusterVars, scoreVars>>

NextBuild ==
    \/ BuildTrip
    \/ PlanWeek

SpecBuild == InitBuild /\ [][NextBuild]_vars

-----------------------------------------------------------------------------
(* determine_disposition on its own: a stop of a trip, the week and the schedule   *)
(* of the next week                                                                *)

\* a TripStop as _build_trip_for_cluster makes it, for the game of a customer
StopAt(customer_id, venue_id) ==
    [venue_id |-> venue_id, stop_order |-> 1,
     demand |-> [venue_id |-> venue_id, customer_id |-> customer_id],
     requires_hub_return |-> FALSE, hub_return_reason |-> ""]

LookaheadStops ==
    {StopAt("c1", "v1"), StopAt("c2", "v1"), StopAt("c2", "v2"), StopAt("c3", "v3"),
     StopAt("c3", "v4")}

\* the schedules of NextWeekSchedules, and one where the customer's game at the
\* stop's venue follows a game 600 miles away
LookaheadSchedules ==
    NextWeekSchedules \cup {<<Game("c1", "v5"), Game("c1", "v1")>>,
                            <<Game("c1", "v1"), Game("c1", "v5")>>}

LookaheadWeeks == 0..18

InitLookahead ==
    /\ PlanIdle
    /\ MatrixIdle
    /\ WriterIdle
    /\ LatLngIdle
    /\ ClusterIdle
    /\ ScoreIdle
    /\ BuildIdle
    /\ FetchIdle
    /\ TourIdle
    /\ \E stop \in LookaheadStops, next_week_games \in LookaheadSchedules,
          week_number \in LookaheadWeeks :
          disp_args = <<[stop |-> stop, next_week_games |-> next_week_games,
                         week_number |-> week_number,
                         venue |-> venue_by_id(stop.venue_id),
                         customer_id |-> stop.demand.customer_id]>>
    /\ disp_out = <<>>

\* determine_post_game_disposition, the body of its loop: one call of
\* determine_disposition
Dispose ==
    /\ disp_out = <<>>
    /\ disp_out' = <<determine_disposition(disp_args[1].stop, disp_args[1].next_week_games,
                                           disp_args[1].week_number, disp_args[1].venue,
                                           disp_args[1].customer_id)>>
    /\ UNCHANGED <<disp_args, buildVars, fetchVars, tourVars>>
    /\ UNCHANGED <<planVars, matrixVars, writerVars, latlngVars, clusterVars, scoreVars>>

NextLookahead == Dispose

SpecLookahead == InitLookahead /\ [][NextLookahead]_vars

-----------------------------------------------------------------------------
(* _fetch_from_google_maps on its own: the loops over the batches of origins and   *)
(* destinations.  fetch_log lists what the caller did, in order: "call" for a call *)
(* of gmaps.distance_matrix and "sleep" for a time.sleep of the rate-limit delay.  *)

\* config.BATCH_SIZE is read from the environment
BatchSizes == {1, 2}

\* the locals of _fetch_from_google_maps; results lists the batches whose elements
\* were appended, by the start of the origin and of the destination batch
FetchLocals(api_key, n_origins, n_destinations, batch_size) ==
    [api_key |-> api_key, n_origins |-> n_origins, n_destinations |-> n_destinations,
     batch_size |-> batch_size, o_start |-> 0, d_start |-> 0, results |-> <<>>,
     returned |-> FALSE]

InitFetch ==
    /\ PlanIdle
    /\ MatrixIdle
    /\ WriterIdle
    /\ LatLngIdle
    /\ ClusterIdle
    /\ ScoreIdle
    /\ BuildIdle
    /\ LookIdle
    /\ TourIdle
    /\ \E api_key \in BOOLEAN, n_origins \in 0..MaxFetch, n_destinations \in 0..MaxFetch,
          batch_size \in BatchSizes :
          fetch = <<FetchLocals(api_key, n_origins, n_destinations, batch_size)>>
    /\ fetch_log = <<>>

\* the loops have a batch left to request
batch_left(f) == f.api_key /\ f.n_destinations > 0 /\ f.o_start < f.n_origins

\* the position of the loops after the batch at (o_start, d_start)
next_batch(f) ==
    IF f.d_start + f.batch_size < f.n_destinations
    THEN [f EXCEPT !.d_start = @ + f.batch_size]
    ELSE [f EXCEPT !.o_start = @ + f.batch_size, !.d_start = 0]

\* what the body of the inner loop adds to fetch_log: the sleep is the last
\* statement of the try block, and "except Exception: continue" skips it
batch_events(raised) == IF raised THEN <<"call">> ELSE <<"call", "sleep">>

\* one iteration of the inner loop: the call of the provider, which answers or
\* raises
FetchBatch ==
    /\ fetch # <<>>
    /\ ~fetch[1].returned
    /\ batch_left(fetch[1])
    /\ \E raised \in BOOLEAN :
          /\ fetch_log' = fetch_log \o batch_events(raised)
          /\ fetch' = <<[next_batch(fetch[1]) EXCEPT
                            !.results = IF raised THEN @
                                        ELSE Append(@, <<fetch[1].o_start,
                                                         fetch[1].d_start>>)]>>
    /\ UNCHANGED <<buildVars, lookVars, tourVars>>
    /\ UNCHANGED <<planVars, matrixVars, writerVars, latlngVars, clusterVars, scoreVars>>

\* "return []" without an API key, and "return results" after the loops
FetchReturn ==
    /\ fetch # <<>>
    /\ ~fetch[1].returned
    /\ ~batch_left(fetch[1])
    /\ fetch' = <<[fetch[1] EXCEPT !.returned = TRUE]>>
    /\ UNCHANGED <<fetch_log, buildVars, lookVars, tourVars>>
    /\ UNCHANGED <<planVars, matrixVars, writerVars, latlngVars, clusterVars, scoreVars>>

NextFetch ==
    \/ FetchBatch
    \/ FetchReturn

SpecFetch == InitFetch /\ [][NextFetch]_vars

-----------------------------------------------------------------------------
(* optimize_week with trips of up to four stops: the stops of a trip, its miles    *)
(* and the answer of the TSP solver                                                *)

\* the venues of the games of a week, in the order of the schedule: three venues on
\* both sides of hub h2, three and four venues on one side of hub h1, two venues,
\* three games at two venues, and two venues of hub h1 too far apart for one trip
TourVenues ==
    {<<Venue("v8", 580), Venue("v9", 630), Venue("v10", 520)>>,
     <<Venue("v10", 520), Venue("v8", 580), Venue("v9", 630)>>,
     <<Venue("v3", 50), Venue("v1", 100), Venue("v2", 180)>>,
     <<Venue("v2", 180), Venue("v3", 50), Venue("v1", 100)>>,
     <<Venue("v3", 50), Venue("v1", 100), Venue("v2", 180), Venue("v11", 120)>>,
     <<Venue("v1", 100), Venue("v2", 180)>>,
     <<Venue("v1", 100), Venue("v1", 100), Venue("v2", 180)>>,
     <<Venue("v3", 50), Venue("v12", 290)>>}

TourCustomers == <<"c1", "c2", "c3", "c4">>

\* The week data given to the planner: customer k plays at venues[k] and needs one
\* bench; every hub holds four benches, h1 has a crew of three and h2 a crew of two.
TourWeek(venues, n1, veh2) ==
    [week_number |-> 1,
     hubs |-> <<Hub1, Hub2>>,
     games |-> [k \in DOMAIN venues |-> GameAt(TourCustomers[k], venues[k])],
     contract_items |->
         [k \in DOMAIN venues |-> ContractItem(TourCustomers[k], "heated_bench", 1, "")],
     assets |->
         [k \in 1..4 |-> Asset(<<"a", k>>, "heated_bench", "at_hub", "h1", "", "", 150)]
         \o [k \in 1..4 |-> Asset(<<"b", k>>, "heated_bench", "at_hub", "h2", "", "", 150)],
     vehicles |->
         [i \in 1..n1 |-> Vehicle(i, "h1", IF i = 1 THEN 200 ELSE 0)]
         \o (IF veh2 THEN <<Vehicle(0, "h2", 0)>> ELSE <<>>),
     personnel |->
         <<Person("p1", "driver", "h1"), Person("p2", "service_tech", "h1"),
           Person("p3", "lead_tech", "h2"), Person("p4", "lead_tech", "h1"),
           Person("p5", "service_tech", "h2")>>,
     branding_tasks |-> <<>>]

\* what the TSP solver can answer: no solution, or a tour through two, three or four
\* stops (the stop indices in the order of the tour, 1-based here)
TourAnswers == {<<>>} \cup Perms(2) \cup Perms(3) \cup Perms(4)

InitTour ==
    /\ PlanIdle
    /\ MatrixIdle
    /\ WriterIdle
    /\ LatLngIdle
    /\ ClusterIdle
    /\ ScoreIdle
    /\ BuildIdle
    /\ LookIdle
    /\ FetchIdle
    /\ \E venues \in TourVenues, n1 \in 0..MaxVehicles, veh2 \in BOOLEAN,
          new_order \in TourAnswers :
          tour_args = <<[week_data |-> TourWeek(venues, n1, veh2), new_order |-> new_order]>>
    /\ tour_out = <<>>

\* main.optimize, step 5: optimize_week on the clusters of the week
PlanTour ==
    /\ tour_out = <<>>
    /\ tour_out' = <<optimize_week(tour_args[1].week_data,
                                   build_constraints(tour_args[1].week_data),
                                   default_clusters(tour_args[1].week_data), {},
                                   tour_args[1].new_order)>>
    /\ UNCHANGED <<tour_args, buildVars, lookVars, fetchVars>>
    /\ UNCHANGED <<planVars, matrixVars, writerVars, latlngVars, clusterVars, scoreVars>>

NextTour == PlanTour

SpecTour == InitTour /\ [][NextTour]_vars

-----------------------------------------------------------------------------
(* The pipeline on weeks whose venues lie between the two hubs: a cluster holds      *)
(* venues with different nearest hubs, the hubs hold different asset types, and a    *)
(* contract item asks for up to three assets                                         *)

CascadeQuantities == {1, 3}

MaxBenches == 3      \* largest number of benches at hub h1

\* Customers c1, c2, c3 play at the venues at miles 290, 320 and 340 (the first is
\* nearest to hub h1 and seeds the cluster, the others are nearest to hub h2).  c1 needs one bench, c2 needs q2 benches,
\* c3 needs one asset of type t3.  Hub h1 holds b1 benches and a vehicle if veh1; hub
\* h2 holds no bench, a shader, and n2 vehicles.  If task, the first bench of h1 has a
\* pending branding task.
CascadeWeek(q2, t3, b1, task, veh1, n2) ==
    [week_number |-> 1,
     hubs |-> <<Hub1, Hub2>>,
     games |-> <<GameAt("c1", Venue("v13", 290)), GameAt("c2", Venue("v14", 320)),
                 GameAt("c3", Venue("v15", 340))>>,
     contract_items |->
         <<ContractItem("c1", "heated_bench", 1, ""),
           ContractItem("c2", "heated_bench", q2, ""),
           ContractItem("c3", t3, 1, "")>>,
     assets |->
         [k \in 1..b1 |-> Asset(<<"a", k>>, "heated_bench", "at_hub", "h1", "", "", 150)]
         \o <<Asset(<<"b", 1>>, "dragon_shader", "at_hub", "h2", "", "", 200)>>,
     vehicles |->
         (IF veh1 THEN <<Vehicle(0, "h1", 0)>> ELSE <<>>)
         \o [i \in 1..n2 |-> Vehicle(i, "h2", 0)],
     personnel |->
         <<Person("p1", "driver", "h1"), Person("p3", "lead_tech", "h2")>>,
     branding_tasks |->
         IF task /\ b1 >= 1 THEN <<BrandingTask(<<"a", 1>>, "X", "pending")>> ELSE <<>>]

InitCascade ==
    /\ \E q2 \in CascadeQuantities, t3 \in {"heated_bench", "dragon_shader"},
          b1 \in 0..MaxBenches, task \in BOOLEAN, veh1 \in BOOLEAN, n2 \in 0..MaxVehicles :
          week_data = CascadeWeek(q2, t3, b1, task, veh1, n2)
    /\ pc = "optimize"
    /\ result = EmptyResult
    /\ initial_result = EmptyResult
    /\ best_result = EmptyResult
    /\ step = 0
    /\ step_result = None
    /\ combined = EmptyResult
    /\ global_used_asset_ids = {}
    /\ served_set = {}
    /\ pass_num = 0
    /\ pass_result = None
    /\ MatrixIdle
    /\ WriterIdle
    /\ LatLngIdle
    /\ ClusterIdle
    /\ ScoreIdle
    /\ UnitIdle

NextCascade ==
    \/ OptimizeWeek
    \/ EnterCascade
    \/ SkipCascade
    \/ CascadeStep
    \/ CascadeFinish

SpecCascade == InitCascade /\ [][NextCascade]_vars

-----------------------------------------------------------------------------
(* Properties of the request pipeline (specification Spec)                         *)

NoRepeat(s) == \A i, j \in DOMAIN s : i # j => s[i] # s[j]

trip_asset_ids(res) == Flatten([i \in DOMAIN res.trips |-> res.trips[i].assets])

trip_vehicle_ids(trips) == [i \in DOMAIN trips |-> trips[i].vehicle_id]

\* the assets with a branding task in status pending or in_progress
PendingBranding ==
    {week_data.branding_tasks[k].asset_id :
        k \in {j \in DOMAIN week_data.branding_tasks :
                  week_data.branding_tasks[j].status \in {"pending", "in_progress"}}}

NoBlockedAsset(res) == SeqToSet(trip_asset_ids(res)) \cap PendingBranding = {}

RelaxationSteps(res) ==
    {res.constraint_relaxations[k].step : k \in DOMAIN res.constraint_relaxations}

\* result holds what optimize_week or optimize_week0 returned
PlannerReturned == pc = "infeasibility"

\* result holds the final result of the request (after step 6 of main.optimize)
Final == pc \in {"lookahead", "done"}

\* handle_infeasibility was entered
InCascade == step >= 1

\* C1: in every result returned by optimize_week, optimize_week0 and
\* handle_infeasibility each asset id occurs at most once over the asset lists of
\* all trips; in the preseason multi-pass (combined) this holds over the trips of
\* all passes.
C1_AssetUniqueness ==
    /\ NoRepeat(trip_asset_ids(result))
    /\ NoRepeat(trip_asset_ids(combined))
    /\ NoRepeat(trip_asset_ids(best_result))

\* a preseason result of two passes, each trip of which carries assets
C1_Witness ==
    /\ week_data.week_number = 0
    /\ pass_num >= 2
    /\ PlannerReturned
    /\ Len(result.trips) >= 2
    /\ \A i \in DOMAIN result.trips : result.trips[i].assets # <<>>

\* C2: in every result of a single-pass run (optimize_week, and any rerun result the
\* cascade selects) each vehicle id is the vehicle of at most one trip; in the
\* preseason multi-pass the trips one pass adds have pairwise different vehicles.
C2_VehicleUniqueness ==
    /\ [](/\ week_data.week_number # 0 =>
                /\ NoRepeat(trip_vehicle_ids(result.trips))
                /\ NoRepeat(trip_vehicle_ids(best_result.trips))
          /\ RelaxationSteps(best_result) \cap 1..4 # {} =>
                NoRepeat(trip_vehicle_ids(best_result.trips))
          /\ RelaxationSteps(result) \cap 1..4 # {} =>
                NoRepeat(trip_vehicle_ids(result.trips)))
    /\ [][pc = "optimize" /\ week_data.week_number = 0 =>
            NoRepeat(trip_vehicle_ids(SubSeq(combined'.trips, Len(combined.trips) + 1,
                                             Len(combined'.trips))))]_vars

\* a single-pass result of two trips
C2_Witness ==
    /\ week_data.week_number # 0
    /\ PlannerReturned
    /\ Len(result.trips) >= 2

\* C3: an asset with a branding task in status pending or in_progress is on no trip
\* of the initial (non-relaxed) planner run, single-pass or preseason.
C3_BlockedExcludedInitially ==
    /\ PlannerReturned => NoBlockedAsset(result)
    /\ NoBlockedAsset(combined)

\* an initial run that placed assets and left a demand unassigned while an asset is
\* blocked
C3_Witness ==
    /\ PlannerReturned
    /\ PendingBranding # {}
    /\ trip_asset_ids(result) # <<>>
    /\ has_unassigned(result)

\* C4 as stated: no trip of the final result of a request, a result selected by the
\* infeasibility cascade included, carries an asset with a branding task in status
\* pending or in_progress.
C4_NoBlockedInFinal == Final => NoBlockedAsset(result)

\* C4, amended: the final result carries no such asset unless the cascade selected
\* the result of one of its steps 2, 3 or 4, which clear the blocked ids.
C4_NoBlockedUnlessRelaxed ==
    Final /\ RelaxationSteps(result) \cap 2..4 = {} => NoBlockedAsset(result)

\* a final result that went through the cascade without a step 2-4 result being
\* selected, with assets on its trips while an asset is blocked
C4_Witness ==
    /\ Final
    /\ InCascade
    /\ PendingBranding # {}
    /\ RelaxationSteps(result) # {}
    /\ RelaxationSteps(result) \cap 2..4 = {}
    /\ trip_asset_ids(result) # <<>>

DenseStopOrder(res) ==
    \A i \in DOMAIN res.trips :
        \A k \in DOMAIN res.trips[i].stops : res.trips[i].stops[k].stop_order = k

\* C5: in every trip of every result the stops' order indices are exactly 1, 2, ...,
\* n in stop-list order, also for a trip built from a cluster in which some venue
\* has no demand and for a trip of fewer than 3 stops.
C5_DenseStopOrder ==
    /\ DenseStopOrder(result)
    /\ DenseStopOrder(combined)
    /\ DenseStopOrder(best_result)

StatusConsistent(res) ==
    /\ res.status = "completed" => res.unassigned_demands = <<>>
    /\ res.status = "partial" =>
          res.unassigned_demands # <<>> \/ res.constraint_relaxations # <<>>

\* C6: every result returned by optimize_week, optimize_week0 or
\* handle_infeasibility has: status completed implies no unassigned demand, status
\* partial implies an unassigned demand or a relaxation entry.
C6_StatusConsistency ==
    /\ pc # "optimize" => StatusConsistent(result)
    /\ InCascade => StatusConsistent(best_result)

\* a final result of status partial that the cascade returned
C6_Witness ==
    /\ Final
    /\ InCascade
    /\ result.status = "partial"
    /\ has_unassigned(result)

\* C7: handle_infeasibility returns a result with at most as many unassigned-demand
\* entries as the initial result, whichever steps succeed, fail or raise.
C7_CascadeMonotone ==
    InCascade =>
        /\ Len(best_result.unassigned_demands) <= Len(initial_result.unassigned_demands)
        /\ Final => Len(result.unassigned_demands) <= Len(initial_result.unassigned_demands)

\* the cascade returned a result with fewer unassigned entries than the initial one
C7_Witness ==
    /\ Final
    /\ InCascade
    /\ Len(result.unassigned_demands) < Len(initial_result.unassigned_demands)

stops_of(res) == Flatten([i \in DOMAIN res.trips |-> res.trips[i].stops])

\* C8: after determine_post_game_disposition, at week 0 every stop has
\* requires_hub_return = false, and at week 18 or later every stop has
\* requires_hub_return = true with the end-of-season reason, whatever the next-week
\* games are.
C8_LookaheadWeeks ==
    pc = "done" =>
        /\ week_data.week_number = 0 =>
              \A k \in DOMAIN stops_of(result) :
                  stops_of(result)[k].requires_hub_return = FALSE
        /\ week_data.week_number >= 18 =>
              \A k \in DOMAIN stops_of(result) :
                  /\ stops_of(result)[k].requires_hub_return = TRUE
                  /\ stops_of(result)[k].hub_return_reason
                        = "End of season - all assets return to hub"

\* a week-18 result with stops, after the lookahead
C8_Witness ==
    /\ pc = "done"
    /\ week_data.week_number >= 18
    /\ \E i \in DOMAIN result.trips : result.trips[i].stops # <<>>

-----------------------------------------------------------------------------
(* Properties of get_distance_matrix (specification SpecMatrix)                    *)

\* the results of the provider for the pair <<i, j>>
provider_results(p) ==
    SelectSeq(api_results, LAMBDA r : /\ r.origin = locations[p[1]]
                                      /\ r.destination = locations[p[2]])

\* the value of the highest-priority source of an off-diagonal pair
priority_entry(p) ==
    IF p \in DOMAIN cached THEN cached[p]
    ELSE IF provider_results(p) # <<>>
    THEN DistanceEntry(provider_results(p)[Len(provider_results(p))].distance_miles,
                       provider_results(p)[Len(provider_results(p))].duration_minutes)
    ELSE _haversine_estimate(locations[p[1]], locations[p[2]])

\* C9: in the returned matrix every off-diagonal pair holds the value of its
\* highest-priority available source: the cached value when a cache row matched it
\* (even when the provider also returned one), else the provider value when one was
\* returned, else the haversine estimate.
C9_SourcePriority ==
    mpc = "returned" =>
        \A p \in DOMAIN matrix : p[1] # p[2] => matrix[p] = <<priority_entry(p)>>

\* C10: in the returned matrix get(i,i) is (0,0) for every location and get(i,j)
\* returns an entry for every pair of indices, whatever the cache rows and the
\* provider elements are.
C10_DiagonalAndTotal ==
    mpc = "returned" =>
        /\ \A i \in DOMAIN locations :
              get(matrix, locations, i, i) = DistanceEntry(0, 0)
        /\ \A i, j \in DOMAIN locations :
              DOMAIN get(matrix, locations, i, j) = {"distance_miles", "duration_minutes"}

\* a source delivered the pair: a cache row matched it or the provider returned it
delivered(p) == p \in DOMAIN cached \/ provider_results(p) # <<>>

-----------------------------------------------------------------------------
(* Properties of write_results (specification SpecWriter)                          *)

\* the request that drew the identifiers of a row
owner(table, row) ==
    IF table = "optimizer_runs" THEN row.id[1]
    ELSE IF table = "trips" THEN row.optimizer_run_id[1]
    ELSE row.trip_id[1]

\* the rows of every table that carry identifiers of request r
rows_of(tables, r) ==
    [t \in DOMAIN tables |-> {row \in tables[t] : owner(t, row) = r}]

\* the optimizer_runs rows of request r
run_rows(r) == {row \in store.optimizer_runs : row.id = uuid4(r, 0)}

\* the loop of step 2 of write_results attempted every trip of the result
AllTripsAttempted(r) ==
    /\ writers[r].pos \notin {"start", "trips"}
    /\ writers[r].trip = Len(writers[r].result.trips) + 1

ReturnedNormally(r) == writers[r].pos = "returned" /\ writers[r].configured

\* C11: the optimizer_runs row is there with status running while the trips are
\* written, so before any trip, stop, asset or personnel row; a child row is written
\* only after the row of its trip; the run row carries the columns of the final
\* patch (status, trips_generated) only after every trip has been attempted; after
\* a normal return the run row does not have status running.
C11_WriteOrder ==
    /\ \A r \in Requests :
          writers[r].pos = "trips" =>
              /\ run_rows(r) # {}
              /\ \A row \in run_rows(r) : row.status = "running"
    /\ \A row \in store.trips :
          \E run \in store.optimizer_runs : run.id = row.optimizer_run_id
    /\ \A row \in store.trip_stops \cup store.trip_assets \cup store.trip_personnel :
          \E trip \in store.trips : trip.id = row.trip_id
    /\ \A r \in Requests :
          \A row \in run_rows(r) :
              row.trips_generated # None => AllTripsAttempted(r)
    /\ \A r \in Requests :
          ReturnedNormally(r) =>
              /\ run_rows(r) # {}
              /\ \A row \in run_rows(r) : row.status # "running"

\* a request returned normally after two trips, one written with its stops, assets
\* and personnel and one whose write raised
C11_Witness ==
    \E r \in Requests :
        /\ ReturnedNormally(r)
        /\ Len(writers[r].result.trips) >= 2
        /\ writers[r].trips_written >= 1
        /\ writers[r].trip_errors # <<>>
        /\ rows_of(store, r).trip_stops # {}
        /\ rows_of(store, r).trip_assets # {}
        /\ rows_of(store, r).trip_personnel # {}

\* C12: with the store calls of two requests interleaved, a step of one request
\* leaves every row that carries the identifiers of the other as it was, a row of
\* trips, trip_stops, trip_assets or trip_personnel is never changed once inserted,
\* and after a normal return the run row of a request has the status of its own
\* result.
C12_RunsIsolated ==
    /\ [](\A r \in Requests :
             ReturnedNormally(r) =>
                 \A row \in run_rows(r) : row.status = writers[r].result.status)
    /\ [][/\ \A r \in Requests :
                writers'[r] = writers[r] => rows_of(store', r) = rows_of(store, r)
          /\ \A t \in {"trips", "trip_stops", "trip_assets", "trip_personnel"} :
                store[t] \subseteq store'[t]]_vars

\* both requests returned normally, each with trips written, with different statuses
C12_Witness ==
    /\ \A r \in Requests : ReturnedNormally(r) /\ rows_of(store, r).trips # {}
    /\ writers[1].result.status # writers[2].result.status

\* every row that _write_trip inserts for the trip the loop of request r is at
trip_rows_stored(r, tables) ==
    \A k \in DOMAIN _write_trip(writers[r].result.trips[writers[r].trip],
                                writers[r].run_id[1], r, writers[r].ids) :
        _write_trip(writers[r].result.trips[writers[r].trip],
                    writers[r].run_id[1], r, writers[r].ids)[k].rows
            \subseteq tables[_write_trip(writers[r].result.trips[writers[r].trip],
                                         writers[r].run_id[1], r, writers[r].ids)[k].table]

\* the loop of step 2 went on to the next trip, or to step 3 after the last one
went_on(w, v) ==
    /\ v.trip = w.trip + 1
    /\ v.pos = IF w.trip = Len(w.result.trips) THEN "patch" ELSE "trips"

\* C31: when the write of a trip fails (its row or a child row), write_results goes
\* on with every later trip, appends one entry naming the venue of the failed
\* trip's first stop, counts in trips_generated only the trips written without
\* failure, and patches the run row with the status of the result.
C31_TripFailureContained ==
    /\ [](\A r \in Requests :
             /\ writers[r].pos = "patch" =>
                   /\ writers[r].trip = Len(writers[r].result.trips) + 1
                   /\ writers[r].trips_written + Len(writers[r].trip_errors)
                          = Len(writers[r].result.trips)
             /\ ReturnedNormally(r) =>
                   \A row \in run_rows(r) :
                       /\ row.status = writers[r].result.status
                       /\ row.trips_generated = <<writers[r].trips_written>>
                       /\ row.errors = IF writers[r].trip_errors = <<>> THEN None
                                       ELSE <<writers[r].trip_errors>>)
    /\ [][\A r \in Requests :
             (writers[r].pos = "trips" /\ writers'[r].trip # writers[r].trip) =>
                 /\ went_on(writers[r], writers'[r])
                 /\ \/ /\ writers'[r].trips_written = writers[r].trips_written + 1
                       /\ writers'[r].trip_errors = writers[r].trip_errors
                       /\ trip_rows_stored(r, store')
                    \/ /\ writers'[r].trips_written = writers[r].trips_written
                       /\ writers'[r].trip_errors =
                              Append(writers[r].trip_errors,
                                     writers[r].result.trips[writers[r].trip]
                                         .stops[1].venue_id)]_vars

\* a request returned normally after the write of its first trip failed and a later
\* trip was written
C31_Witness ==
    \E r \in Requests :
        /\ ReturnedNormally(r)
        /\ Len(writers[r].result.trips) >= 2
        /\ writers[r].trip_errors = <<writers[r].result.trips[1].stops[1].venue_id>>
        /\ writers[r].trips_written = Len(writers[r].result.trips) - 1
        /\ \E row \in run_rows(r) : row.trips_generated = <<writers[r].trips_written>>

\* the optimizer_runs rows of request r in a store
run_rows_in(tables, r) == {row \in tables.optimizer_runs : row.id = uuid4(r, 0)}

\* the run row of request r, if there is one, carries the patch of the except branch
marked_failed(tables, r) ==
    \A row \in run_rows_in(tables, r) :
        /\ row.status = "failed"
        /\ row.duration_ms # None
        /\ row.errors # None

\* C32: when the insert of the run row or the final patch fails, write_results
\* makes one attempt to patch the run row to failed, with duration and error text,
\* and re-raises whether or not that patch succeeded; it does not return a run id.
\* An insert that left no row and a final patch that left the store as it was have
\* failed; the except branch is left by the re-raise only, and nothing follows it.
C32_FailureReraised ==
    [][\A r \in Requests :
          /\ (/\ writers[r].pos = "start"
              /\ writers[r].configured
              /\ writers'[r] # writers[r]
              /\ run_rows_in(store', r) = {}) => writers'[r].pos = "except"
          /\ (/\ writers[r].pos = "patch"
              /\ writers'[r] # writers[r]
              /\ store' = store) => writers'[r].pos = "except"
          /\ (writers[r].pos = "except" /\ writers'[r] # writers[r]) =>
                 /\ writers'[r].pos = "raised"
                 /\ \/ rows_of(store', r) = rows_of(store, r)
                    \/ marked_failed(store', r)
          /\ writers[r].pos = "raised" => writers'[r] = writers[r]
          /\ (writers'[r].pos = "returned" /\ writers[r].pos # "returned") =>
                 \/ writers[r].pos = "patch"
                 \/ writers[r].pos = "start" /\ ~writers[r].configured]_vars

\* write_results re-raised after its final patch failed, with the run row patched
\* to failed; the other request re-raised with its run row never inserted
C32_Witness ==
    \E r, q \in Requests :
        /\ writers[r].pos = "raised"
        /\ writers[r].trip = Len(writers[r].result.trips) + 1
        /\ run_rows(r) # {}
        /\ marked_failed(store, r)
        /\ writers[q].pos = "raised"
        /\ run_rows(q) = {}

\* C40: after write_results returned, trips_generated of the run row is the number
\* of trip rows that reference the run, and every such trip row has its child rows
\* (here: at least a stop row, every trip having a stop): a trip whose child-row
\* write failed leaves no trip row behind.
C40_NoOrphanTripRows ==
    \A r \in Requests :
        ReturnedNormally(r) =>
            /\ \A row \in run_rows(r) :
                  row.trips_generated = <<Cardinality(rows_of(store, r).trips)>>
            /\ \A trip \in rows_of(store, r).trips :
                  \E stop \in store.trip_stops : stop.trip_id = trip.id

-----------------------------------------------------------------------------
(* Properties of LatLng (specification SpecLatLng)                                 *)

\* the two coordinates differ by at most 1e-6 degree in latitude and in longitude
WithinMicroDegree ==
    /\ Abs(coords[1].lat - coords[2].lat) <= 10
    /\ Abs(coords[1].lng - coords[2].lng) <= 10

\* C13 as stated: two coordinates whose latitudes differ by at most 1e-6 and whose
\* longitudes differ by at most 1e-6 compare equal and have equal hashes, also when
\* they straddle a rounding boundary of the sixth decimal.
C13_ToleranceEquality ==
    compared # <<>> /\ WithinMicroDegree =>
        /\ compared[1].eq
        /\ compared[1].hash_self = compared[1].hash_other

\* C13, amended: two coordinates compare equal exactly when their latitudes round
\* to the same sixth decimal and their longitudes do; coordinates that compare
\* equal have equal hashes and differ by at most 1e-6 in each axis, and a
\* coordinate equals itself.
C13_EqualityByRounding ==
    compared # <<>> =>
        /\ compared[1].eq <=> /\ round6(coords[1].lat) = round6(coords[2].lat)
                              /\ round6(coords[1].lng) = round6(coords[2].lng)
        /\ compared[1].eq =>
              /\ compared[1].hash_self = compared[1].hash_other
              /\ WithinMicroDegree
        /\ coords[1] = coords[2] => compared[1].eq

\* two different coordinates within 1e-6 of each other that compare equal
C13_Witness ==
    /\ compared # <<>>
    /\ coords[1] # coords[2]
    /\ WithinMicroDegree
    /\ compared[1].eq
    /\ compared[1].hash_self = compared[1].hash_other

-----------------------------------------------------------------------------
(* Properties of cluster_venues (specification SpecCluster)                        *)

\* the venue that started a cluster: the loop over the sorted venues reaches it
\* before any other member, every venue before it being assigned already
seed_of(cluster) ==
    LET order == sorted_valid_venues(
                     SelectSeq(cluster_args.venues, LAMBDA v : v.location # None),
                     cluster_args.hub_locations)
    IN order[FirstTrue([i \in DOMAIN order |-> order[i] \in SeqToSet(cluster)])]

\* C14: in every cluster of more than one venue that cluster_venues returns, every
\* member lies within max_radius_miles (haversine) of the venue that started the
\* cluster.
C14_ClusterRadius ==
    cluster_result # <<>> =>
        \A c \in DOMAIN cluster_result[1] :
            Len(cluster_result[1][c]) > 1 =>
                \A k \in DOMAIN cluster_result[1][c] :
                    haversine_miles(seed_of(cluster_result[1][c]).location[1],
                                    cluster_result[1][c][k].location[1])
                        <= cluster_args.max_radius_miles

\* a cluster of three venues whose seed is not its first stop and two members of
\* which lie farther apart than the radius
C14_Witness ==
    /\ cluster_result # <<>>
    /\ \E c \in DOMAIN cluster_result[1] :
          /\ Len(cluster_result[1][c]) >= 3
          /\ seed_of(cluster_result[1][c]) # cluster_result[1][c][1]
          /\ \E i, j \in DOMAIN cluster_result[1][c] :
                haversine_miles(cluster_result[1][c][i].location[1],
                                cluster_result[1][c][j].location[1])
                    > cluster_args.max_radius_miles

-----------------------------------------------------------------------------
(* Properties of score_run (specification SpecScore)                               *)

\* C15: after score_run every trip's optimizer_score and the result's average_score
\* lie in [0, 100] (0 to 1000 tenths), for any trips, any number of unassigned
\* demands and any relaxation log.
C15_ScoreBounds ==
    scored # <<>> =>
        /\ \A i \in DOMAIN scored[1].trips :
              /\ 0 <= scored[1].trips[i].optimizer_score
              /\ scored[1].trips[i].optimizer_score <= 1000
        /\ 0 <= scored[1].average_score
        /\ scored[1].average_score <= 1000

\* a scored result whose trips average below the penalty of its unassigned demands,
\* under a relaxation log whose penalties exceed 100
C15_Witness ==
    /\ scored # <<>>
    /\ Len(scored[1].trips) >= 2
    /\ Len(scored[1].unassigned_demands) >= 6
    /\ Len(scored[1].constraint_relaxations) >= 5
    /\ \A i \in DOMAIN scored[1].trips : scored[1].trips[i].optimizer_score < 300
    /\ scored[1].average_score = 0

-----------------------------------------------------------------------------
(* Preseason multi-pass: the served set and the status of the combined result *)

\* the (venue, customer) pair of a demand
demand_pair(d) == <<d.venue_id, d.customer_id>>

\* the pairs with a contract item that a result left short
short_pairs(res) == {demand_pair(res.unassigned_demands[k]) : k \in DOMAIN res.unassigned_demands}

\* C16: in the preseason multi-pass a (venue, customer) pair enters served_set after
\* a pass only if the pass left no contract item of that demand short; a demand with
\* unassigned quantity stays out of served_set, hence in the remaining demands of the
\* next pass.
C16_ServedOnlyIfFull ==
    [][\A p \in served_set' \ served_set :
          /\ pass_result' # None
          /\ p \notin short_pairs(pass_result'[1])]_vars

\* C17: when the loop of optimize_week0 has ended and the last executed pass reported
\* unassigned demands, the combined result has unassigned demands and the status
\* partial.
C17_PartialWhenShort ==
    (/\ week_data.week_number = 0
     /\ pc # "optimize"
     /\ pass_result # None
     /\ has_unassigned(pass_result[1]))
    => (/\ combined.unassigned_demands # <<>>
        /\ combined.status = "partial")

-----------------------------------------------------------------------------
(* The relaxation log of handle_infeasibility *)

\* step k has just run and its rerun replaced best_result
improved(k) ==
    /\ step_result # None
    /\ best_result = cascade_accept(k, step_result[1])
    /\ \/ pc = "cascade" /\ step = k + 1
       \/ pc = "lookahead" /\ step = k

\* the relaxation log of a result has an entry of step k with its action tag
logged(res, k) ==
    \E i \in DOMAIN res.constraint_relaxations :
        res.constraint_relaxations[i] = [step |-> k, action |-> relaxation_action(k)]

\* handle_infeasibility has returned to main.optimize
cascade_returned == pc = "lookahead" /\ step \in 1..5

\* C18: for every step 1 to 4 whose rerun had fewer unassigned demands than the best
\* result so far, the result handle_infeasibility returns has a relaxation-log entry
\* with that step's number and action tag, also when a later step improved again.
\* Stated step by step: a step that improves logs its entry in best_result, and an
\* entry of best_result is kept by every later step of the cascade up to the result
\* that is returned.
C18_EveryImprovementLogged ==
    /\ [](\A k \in 1..4 : improved(k) => logged(best_result, k))
    /\ [][pc = "cascade" =>
            \A k \in 1..4 :
                logged(best_result, k) =>
                    /\ logged(best_result', k)
                    /\ cascade_returned' => logged(result', k)]_vars

\* C19: when handle_infeasibility returns a result that still has unassigned
\* demands, each of them carries the reason of the first matching diagnosis rule
\* (not in inventory, all deployed, no vehicle, no personnel, else insufficient
\* resources).
C19_DiagnosedReasons ==
    (cascade_returned /\ has_unassigned(result))
    => \A k \in DOMAIN result.unassigned_demands :
          result.unassigned_demands[k].reason
              = diagnose(result.unassigned_demands[k],
                         matching_assets_of(result.unassigned_demands[k], week_data),
                         Len(week_data.vehicles), total_personnel_of(week_data))

-----------------------------------------------------------------------------
(* The best result of handle_infeasibility *)

\* the number of unassigned demands of a result
short_count(res) == Len(res.unassigned_demands)

\* handle_infeasibility is running or has returned
in_cascade == pc = "cascade" \/ cascade_returned

\* C20: the result handle_infeasibility returns has the fewest unassigned demands
\* among the initial result and all the reruns the cascade executed; the steps are
\* attempted in the order 1, 2, 3, 4; no step is executed after a rerun that improved
\* the best result and has zero unassigned demands.
C20_BestOfCascade ==
    /\ [](in_cascade =>
            /\ short_count(best_result) <= short_count(initial_result)
            /\ step_result # None => short_count(best_result) <= short_count(step_result[1]))
    /\ [](cascade_returned => result = best_result)
    /\ [](pc = "cascade" => step \in 1..5 /\ has_unassigned(best_result))
    /\ [][pc = "cascade" =>
            /\ short_count(best_result') <= short_count(best_result)
            /\ step' \in {step, step + 1}
            /\ step' = step => pc' = "lookahead"]_vars

\* the cascade ran to its end, an earlier rerun improved the best result and the
\* last rerun was worse than the best
C20_Witness ==
    /\ cascade_returned
    /\ step = 5
    /\ step_result # None
    /\ short_count(step_result[1]) > short_count(result)
    /\ short_count(result) < short_count(initial_result)

-----------------------------------------------------------------------------
(* Properties of the planner on its own (specification SpecBuild)                  *)

\* the quantity a result reports as unassigned for an item of a demand
unassigned_quantity(res, demand, item) ==
    SumSeq([k \in DOMAIN res.unassigned_demands |->
               IF /\ res.unassigned_demands[k].customer_id = demand.customer_id
                  /\ res.unassigned_demands[k].venue_id = demand.venue_id
                  /\ res.unassigned_demands[k].asset_type = item.asset_type
               THEN res.unassigned_demands[k].quantity ELSE 0])

\* the number of assets of a type on the trips of a result
assigned_of_type(res, wd, asset_type) ==
    Cardinality({a \in UNION {SeqToSet(res.trips[i].assets) : i \in DOMAIN res.trips} :
                    \E k \in DOMAIN wd.assets :
                        wd.assets[k].id = a /\ wd.assets[k].asset_type = asset_type})

\* the quantity of a type that the demands ask for and the result does not report
\* as unassigned
served_of_type(res, demands, asset_type) ==
    SumSeq([d \in DOMAIN demands |->
               SumSeq([m \in DOMAIN demands[d].items |->
                          IF demands[d].items[m].asset_type = asset_type
                          THEN demands[d].items[m].quantity
                               - unassigned_quantity(res, demands[d], demands[d].items[m])
                          ELSE 0])])

\* C21: every contract item of every demand is accounted for in the result of
\* optimize_week: the assets assigned for it plus the quantity reported for it in
\* unassigned_demands make up its quantity (checked per demand for the reported
\* quantity and per asset type for the assigned assets), also for a demand at a
\* venue without coordinates and in a week without hubs.
C21_EveryItemAccounted ==
    week_out # <<>> =>
        /\ \A d \in DOMAIN build_args[1].constraints.demands :
              \A m \in DOMAIN build_args[1].constraints.demands[d].items :
                  unassigned_quantity(week_out[1], build_args[1].constraints.demands[d],
                                      build_args[1].constraints.demands[d].items[m])
                      <= build_args[1].constraints.demands[d].items[m].quantity
        /\ \A t \in {"heated_bench", "dragon_shader"} :
              assigned_of_type(week_out[1], build_args[1].week_data, t)
                  = served_of_type(week_out[1], build_args[1].constraints.demands, t)

\* the arguments and the answer of the call of _build_trip_for_cluster
args == build_args[1]
out == build_out[1]

\* the demands at the venues of the cluster
cluster_demands ==
    SelectSeq(args.constraints.demands,
              LAMBDA d : \E i \in DOMAIN args.cluster : args.cluster[i].id = d.venue_id)

\* the nearest hub exists and every active vehicle of every hub is reserved
NoFreeVehicle ==
    /\ nearest_hub(args.week_data, args.cluster[1]) # None
    /\ \A h \in DOMAIN args.week_data.hubs :
          \A v \in SeqToSet(available_vehicles_at_hub(args.week_data,
                                                        args.week_data.hubs[h].id)) :
              v.id \in args.used.used_vehicle_ids

\* the number of entries of the answer that report an item with a quantity
reported(demand, item, quantity) ==
    Cardinality({k \in DOMAIN out.unassigned :
                    out.unassigned[k] =
                        UnassignedDemand(demand.customer_id, demand.venue_id, item.asset_type,
                                         quantity,
                                         "No vehicle with sufficient capacity available")})

\* C24: when the nearest hub exists and no unreserved active vehicle exists at any
\* hub, the cluster gives no trip, exactly one UnassignedDemand per contract item of
\* every demand at its venues, with the item's full quantity and the reason "No
\* vehicle with sufficient capacity available", and the reserved vehicles, assets
\* and personnel are unchanged.
C24_NoVehicle ==
    (build_out # <<>> /\ NoFreeVehicle) =>
        /\ out.trip = None
        /\ \A d \in DOMAIN cluster_demands :
              \A m \in DOMAIN cluster_demands[d].items :
                  reported(cluster_demands[d], cluster_demands[d].items[m],
                           cluster_demands[d].items[m].quantity) = 1
        /\ Len(out.unassigned)
              = SumSeq([d \in DOMAIN cluster_demands |-> Len(cluster_demands[d].items)])
        /\ out.used_vehicle_ids = args.used.used_vehicle_ids
        /\ out.used_asset_ids = args.used.used_asset_ids
        /\ out.used_person_ids = args.used.used_person_ids

\* a cluster with a demand of two items met no free vehicle although vehicles exist
C24_Witness ==
    /\ build_out # <<>>
    /\ NoFreeVehicle
    /\ args.week_data.vehicles # <<>>
    /\ \E d \in DOMAIN cluster_demands : Len(cluster_demands[d].items) = 2
    /\ Len(cluster_demands) = 2

\* the vehicle of the trip of the answer
trip_vehicle ==
    CHOOSE v \in SeqToSet(args.week_data.vehicles) : v.id = out.trip[1].vehicle_id

\* the weight of the assets on the trip of the answer
trip_weight ==
    SumSeq([k \in DOMAIN out.trip[1].assets |->
               (CHOOSE a \in SeqToSet(args.week_data.assets) :
                    a.id = out.trip[1].assets[k]).weight_lbs])

Overloaded == trip_vehicle.capacity_lbs # 0 /\ trip_weight > trip_vehicle.capacity_lbs

OverloadWarned == \E k \in DOMAIN out.warnings : out.warnings[k] = "may be overloaded"

\* C25: a trip whose assets weigh more than the declared capacity of its vehicle is
\* still produced with all the matched assets and the warnings then hold an overload
\* warning; there is no overload warning for a trip within the capacity or for a
\* vehicle that declares none.
C25_OverloadWarning ==
    build_out # <<>> =>
        /\ out.used_asset_ids # args.used.used_asset_ids => out.trip # None
        /\ out.trip # None =>
              /\ SeqToSet(out.trip[1].assets)
                    = out.used_asset_ids \ args.used.used_asset_ids
              /\ OverloadWarned <=> Overloaded
        /\ out.trip = None => ~OverloadWarned

\* a trip of two benches on the vehicle that declares 200 lbs
C25_Witness ==
    /\ build_out # <<>>
    /\ out.trip # None
    /\ Overloaded
    /\ Len(out.trip[1].assets) >= 2

\* Constraints.max_drive_hrs, in hundredths of an hour
max_drive_hrs == 1100

\* C26: every trip of a result respects the driver-hour limit: its drive hours along
\* hub, stops, hub do not exceed max_drive_hrs (11); a cluster whose route would
\* exceed the limit does not become a trip.
C26_DriveHours ==
    /\ build_out # <<>> /\ out.trip # None => out.trip[1].total_drive_hrs <= max_drive_hrs
    /\ week_out # <<>> =>
          \A i \in DOMAIN week_out[1].trips :
              week_out[1].trips[i].total_drive_hrs <= max_drive_hrs

\* the unreserved personnel of the hub of the trip of the answer
free_crew ==
    SelectSeq(available_personnel_at_hub(args.week_data, out.trip[1].origin_hub_id),
              LAMBDA p : p.id \notin args.used.used_person_ids)

\* the role of the person reserved as the driver of the trip
driver_role ==
    (CHOOSE p \in SeqToSet(args.week_data.personnel) :
         p.id = out.trip[1].personnel[1].person_id).role

has_role(people, role) == \E k \in DOMAIN people : people[k].role = role

\* C27: the person reserved as the driver of a trip is an unreserved driver of the
\* hub if there is one; otherwise an unreserved lead_tech if there is one; otherwise
\* an unreserved service_tech, whatever the order of the personnel list.
C27_DriverPreference ==
    (build_out # <<>> /\ out.trip # None /\ out.trip[1].personnel # <<>>) =>
        /\ out.trip[1].personnel[1].role_on_trip = "driver"
        /\ driver_role = (IF has_role(free_crew, "driver") THEN "driver"
                          ELSE IF has_role(free_crew, "lead_tech") THEN "lead_tech"
                          ELSE "service_tech")

-----------------------------------------------------------------------------
(* optimize_week0 on its own: the preseason weeks, with or without a spare bench   *)
(* at hub h1                                                                       *)

Week0Data(c2_venue, c3_venue, q1, c3_items, task, n1, veh2, spare) ==
    [WeekData(0, c2_venue, c3_venue, q1, c3_items, task, n1, veh2) EXCEPT
        !.assets = @ \o (IF spare
                         THEN <<Asset("a5", "heated_bench", "at_hub", "h1", "", "", 150)>>
                         ELSE <<>>)]

InitWeek0 ==
    /\ \E c2_venue \in {"v1", "v2"}, c3_venue \in {"", "v3", "v4"},
          q1 \in 1..MaxQty, c3_items \in BOOLEAN, task \in {"", "pending", "in_progress"},
          n1 \in 0..MaxVehicles, veh2 \in BOOLEAN, spare \in BOOLEAN :
          /\ c3_items => c3_venue # ""
          /\ week_data = Week0Data(c2_venue, c3_venue, q1, c3_items, task, n1, veh2, spare)
    /\ pc = "optimize"
    /\ result = EmptyResult
    /\ initial_result = EmptyResult
    /\ best_result = EmptyResult
    /\ step = 0
    /\ step_result = None
    /\ combined = EmptyResult
    /\ global_used_asset_ids = {}
    /\ served_set = {}
    /\ pass_num = 0
    /\ pass_result = None
    /\ MatrixIdle
    /\ WriterIdle
    /\ LatLngIdle
    /\ ClusterIdle
    /\ ScoreIdle
    /\ UnitIdle

NextWeek0 == Week0Pass

SpecWeek0 == InitWeek0 /\ [][NextWeek0]_vars

-----------------------------------------------------------------------------
(* Properties of the preseason passes (specification SpecWeek0)                    *)

\* the quantity of a type that the contract items of the demands ask for
demanded_of_type(demands, asset_type) ==
    SumSeq([d \in DOMAIN demands |->
               SumSeq([m \in DOMAIN demands[d].items |->
                          IF demands[d].items[m].asset_type = asset_type
                          THEN demands[d].items[m].quantity ELSE 0])])

\* C22: in the preseason passes the assets assigned to a demand over all passes
\* never exceed the quantity of its contract items, also when several customers
\* have demands at the same venue.  Stated per asset type over the trips of
\* combined: if every demand receives at most the quantity of its items, the
\* assets of a type on the trips are at most the quantity the demands ask for.
C22_NoOverAssignment ==
    week_data.week_number = 0 =>
        \A t \in {"heated_bench", "dragon_shader"} :
            assigned_of_type(combined, week_data, t)
                <= demanded_of_type(build_constraints(week_data).demands, t)

\* a step of the loop of optimize_week0 that is followed by another pass
another_pass == pc = "optimize" /\ pc' = "optimize" /\ pass_num' = pass_num + 1

-----------------------------------------------------------------------------
(* Properties of determine_disposition (specification SpecLookahead)               *)

\* the stop's customer has a game next week at the stop's own venue
plays_here_next_week ==
    \E k \in DOMAIN disp_args[1].next_week_games :
        /\ disp_args[1].next_week_games[k].customer_id = disp_args[1].customer_id
        /\ disp_args[1].next_week_games[k].venue_id = disp_args[1].stop.venue_id

\* C28: in the weeks 1 to 17, a stop whose customer has any game next week at the
\* stop's own venue is left on site, with requires_hub_return false, also when the
\* same customer has another game next week at a different venue listed earlier.
C28_SameVenueLeftOnSite ==
    (/\ disp_out # <<>>
     /\ disp_args[1].week_number \in 1..17
     /\ plays_here_next_week) =>
        /\ disp_out[1].action = "leave_on_site"
        /\ disp_out[1].requires_hub_return = FALSE

-----------------------------------------------------------------------------
(* Properties of _fetch_from_google_maps (specification SpecFetch)                 *)

\* C29: between any two consecutive calls of the distance provider the caller
\* waits the rate-limit delay, also when the earlier of the two calls failed: no
\* call follows a call in fetch_log without a sleep between them.
C29_DelayBetweenCalls ==
    \A i \in DOMAIN fetch_log :
        (i + 1 \in DOMAIN fetch_log /\ fetch_log[i] = "call") => fetch_log[i + 1] = "sleep"

-----------------------------------------------------------------------------
(* Properties of the TSP reorder (SpecTour) *)

\* the plan of the same week when the solver is never asked: the stops of every trip
\* in the order _build_trip_for_cluster gave them
unordered_plan ==
    optimize_week(tour_args[1].week_data, build_constraints(tour_args[1].week_data),
                  default_clusters(tour_args[1].week_data), {}, <<>>)

\* a stop without its order index
visit(stop) == [venue_id |-> stop.venue_id, demand |-> stop.demand,
                requires_hub_return |-> stop.requires_hub_return,
                hub_return_reason |-> stop.hub_return_reason]

\* after is a re-sequencing of before: the same stops, each exactly once, each with
\* its venue and demand, and order indices 1..n in the new sequence
resequenced(before, after) ==
    /\ Len(after) = Len(before)
    /\ \A k \in DOMAIN after : after[k].stop_order = k
    /\ \E f \in Perms(Len(before)) :
          \A k \in DOMAIN after : visit(after[k]) = visit(before[f[k]])

\* the solver's answer is taken for a trip of this many stops
accepted(new_order, n) == new_order # <<>> /\ Len(new_order) = n

\* C33: the TSP reorder changes only trips of at least 3 stops, and only their stop
\* sequence; what it returns is a permutation of the trip's stops (same stops, each
\* once, venue and demand kept) with order indices 1..n in the new sequence; when the
\* solver has no solution or its node count differs from the stop count, the original
\* stop sequence is returned unchanged.
C33_ReorderIsPermutation ==
    tour_out # <<>> =>
        LET before == unordered_plan.trips
            after == tour_out[1].trips
        IN /\ Len(after) = Len(before)
           /\ \A i \in DOMAIN after :
                 /\ [after[i] EXCEPT !.stops = <<>>] = [before[i] EXCEPT !.stops = <<>>]
                 /\ Len(before[i].stops) < 3 => after[i].stops = before[i].stops
                 /\ ~accepted(tour_args[1].new_order, Len(before[i].stops))
                        => after[i].stops = before[i].stops
                 /\ resequenced(before[i].stops, after[i].stops)
                 /\ (Len(before[i].stops) >= 3
                       /\ accepted(tour_args[1].new_order, Len(before[i].stops)))
                        => \A k \in DOMAIN after[i].stops :
                              visit(after[i].stops[k])
                                  = visit(before[i].stops[tour_args[1].new_order[k]])

\* a trip of three stops left the planner with its last stop first
C33_Witness ==
    /\ tour_out # <<>>
    /\ \E i \in DOMAIN tour_out[1].trips :
          /\ Len(tour_out[1].trips[i].stops) = 3
          /\ tour_out[1].trips[i].stops[1].venue_id = unordered_plan.trips[i].stops[3].venue_id
          /\ tour_out[1].trips[i].stops[1].stop_order = 1

\* the matrix miles along hub, the stops of the trip in their order, hub
miles_of_route(wd, trip) ==
    LET k == FirstTrue([i \in DOMAIN wd.hubs |-> wd.hubs[i].id = trip.origin_hub_id])
    IN route_miles(wd.hubs[k].pos, trip.stops,
                   [g \in DOMAIN wd.games |-> wd.games[g].venue], wd.hubs[k].pos)

\* C38: for every trip in a result, total_miles is the sum of the matrix miles along
\* hub, stops in their final order, hub, also when the TSP reorder re-sequenced them.
C38_MilesOfFinalOrder ==
    tour_out # <<>> =>
        \A i \in DOMAIN tour_out[1].trips :
            tour_out[1].trips[i].total_miles
                = miles_of_route(tour_args[1].week_data, tour_out[1].trips[i])

\* the same for the tours no other tour through the same stops is shorter than
MilesOfShortestTour ==
    tour_out # <<>> =>
        \A i \in DOMAIN tour_out[1].trips :
            LET trip == tour_out[1].trips[i]
                shortest ==
                    \A f \in Perms(Len(trip.stops)) :
                        miles_of_route(tour_args[1].week_data, trip)
                            <= miles_of_route(tour_args[1].week_data,
                                   [trip EXCEPT !.stops =
                                       [k \in DOMAIN f |-> trip.stops[f[k]]]])
            IN shortest => trip.total_miles = miles_of_route(tour_args[1].week_data, trip)

-----------------------------------------------------------------------------
(* Properties of the trips of a plan: assets and personnel *)

\* C37: every trip in a result carries at least one asset: a cluster for which no
\* asset could be matched to any demand produces no trip and reserves no vehicle or
\* personnel.
C37_EveryTripCarriesAsset ==
    /\ week_out # <<>> =>
          \A i \in DOMAIN week_out[1].trips : week_out[1].trips[i].assets # <<>>
    /\ build_out # <<>> =>
          (out.used_asset_ids = args.used.used_asset_ids =>
              /\ out.trip = None
              /\ out.used_vehicle_ids = args.used.used_vehicle_ids
              /\ out.used_person_ids = args.used.used_person_ids)

\* the persons of result r with home hub, as (trip, position) pairs
crew_slots(r) ==
    {<<i, k>> : i \in DOMAIN r.trips, k \in 1..2}
        \cap UNION {{<<i, k>> : k \in DOMAIN r.trips[i].personnel} : i \in DOMAIN r.trips}

\* the persons of the trips of r obey the crew rules for the week wd
crew_rules(r, wd) ==
    /\ \A i \in DOMAIN r.trips :
          /\ Len(r.trips[i].personnel) <= 2
          /\ Cardinality({k \in DOMAIN r.trips[i].personnel :
                             r.trips[i].personnel[k].role_on_trip = "driver"}) <= 1
          /\ \A k \in DOMAIN r.trips[i].personnel :
                \E p \in DOMAIN wd.personnel :
                    /\ wd.personnel[p].id = r.trips[i].personnel[k].person_id
                    /\ wd.personnel[p].home_hub_id = r.trips[i].origin_hub_id
    /\ \A s1, s2 \in crew_slots(r) :
          r.trips[s1[1]].personnel[s1[2]].person_id
              = r.trips[s2[1]].personnel[s2[2]].person_id => s1 = s2

\* the crew rules in the results of the planning pipeline: the single-pass result,
\* the results of the cascade and of its reruns, and the result of a preseason pass
PlanCrewRules ==
    /\ pc # "optimize" /\ week_data.week_number # 0 =>
          /\ crew_rules(result, week_data)
          /\ crew_rules(initial_result, week_data)
          /\ crew_rules(best_result, week_data)
    /\ step_result # None => crew_rules(step_result[1], week_data)
    /\ pass_result # None => crew_rules(pass_result[1], week_data)

\* C39: in every single-pass result, and within each preseason pass, each person is
\* on at most one trip, a trip has at most two persons of whom at most one has the
\* trip role driver, and every person on a trip has the trip's origin hub as home hub.
C39_CrewRules ==
    tour_out # <<>> => crew_rules(tour_out[1], tour_args[1].week_data)

\* a result with two trips from the same hub, both with a driver, the second a
\* technician taken as driver
C39_Witness ==
    /\ tour_out # <<>>
    /\ \E i, j \in DOMAIN tour_out[1].trips :
          /\ i # j
          /\ tour_out[1].trips[i].origin_hub_id = tour_out[1].trips[j].origin_hub_id
          /\ Len(tour_out[1].trips[i].personnel) = 2
          /\ tour_out[1].trips[j].personnel = <<[person_id |-> "p4", role_on_trip |-> "driver"]>>

-----------------------------------------------------------------------------
(* Properties of handle_infeasibility: what the cascade selects *)

\* the sum of the quantities of the unassigned-demand entries of a result
RECURSIVE quantity_sum(_)
quantity_sum(entries) ==
    IF entries = <<>> THEN 0 ELSE Head(entries).quantity + quantity_sum(Tail(entries))

unassigned_total(res) == quantity_sum(res.unassigned_demands)

\* C34: the total unassigned quantity of the result returned by handle_infeasibility
\* is at most that of the initial result: the cascade never replaces a result by one
\* that leaves more equipment undelivered.
C34_NoMoreUndelivered ==
    pc = "lookahead" /\ InCascade =>
        unassigned_total(result) <= unassigned_total(initial_result)

rebranding_notice == "Some assets may need rebranding before deployment"

has_notice(res) == \E k \in DOMAIN res.warnings : res.warnings[k] = rebranding_notice

\* C35: a result returned by handle_infeasibility that was computed with the branding
\* blocks cleared (cascade step 2, 3 or 4) has the rebranding notice in its warnings;
\* in particular a returned result with a blocked asset on a trip has it.
C35_RebrandingNotice ==
    Final /\ InCascade =>
        /\ RelaxationSteps(result) \cap 2..4 # {} => has_notice(result)
        /\ ~NoBlockedAsset(result) => has_notice(result)

\* the log of a result holds an entry of step 4
logs_step4(res) == 4 \in RelaxationSteps(res)

\* the reruns of steps 3 and 4 plan single-stop clusters, so neither asks the TSP
\* solver: the rerun of step 4 has no fewer unassigned demands than that of step 3
Step4NotBetterThanStep3 ==
    ~_is_better(cascade_rerun(4, week_data, <<>>), cascade_rerun(3, week_data, <<>>))

====
